---- MODULE Spec2Model ----
(***************************************************************************)
(* Network dashboard (Streamlit): the per-session dataset store, the       *)
(* upload loop, the clear-all action, the six module renderers and the     *)
(* provisioning drill-down (Departamento -> Provincia -> Distrito).        *)
(*                                                                         *)
(* One script run of app.py main() is a sequence of steps (pc); a user     *)
(* event at pc = "idle" changes one widget and starts the next run.        *)
(* Text that the code inspects character by character (file names,        *)
(* numeric cells, date cells) is a sequence of one-character strings.      *)
(*                                                                         *)
(* Spec is the session of a user who drills down in the provisioning       *)
(* module, SpecUpload the session of a user who only changes the files of  *)
(* the uploader, SpecHelpers the helper functions of utils/ applied on     *)
(* their own to bounded sets of arguments.                                 *)
(***************************************************************************)
EXTENDS Integers, Sequences, FiniteSets, TLC

VARIABLES
  datasets,        \* st.session_state["datasets"]; empty domain before initialisation
  uploaded_files,  \* value of the sidebar file_uploader (sequence of file ids)
  drill,           \* st.session_state.provision_drill_state
  widget,          \* frontend state of the three keyed drill-down selectboxes
  ids_this_run,    \* widgets and buttons rendered so far in the current run
  clicked,         \* the button whose click started the current run ("none" otherwise)
  pc,              \* position of the script run
  fileIdx,         \* index of the upload loop
  trigger,         \* the user event that started the running chain of runs
  outcome,         \* "running", or how the finished run ended: "ok" or "exception"
  siteTable,       \* the leaf-level table st.dataframe showed in this run
  messages,        \* st.success / st.error / st.warning of the upload loop in this run
  handles,         \* read position of the handle of each uploaded file in this run
  fn_args,         \* a helper function applied on its own: its name and arguments
  fn_result        \* what that application returned

vars == << datasets, uploaded_files, drill, widget, ids_this_run, clicked, pc,
           fileIdx, trigger, outcome, siteTable, messages, handles, fn_args, fn_result >>

None == "None"              \* Python None where a string is expected
NoDf == [none |-> TRUE]     \* Python None where a DataFrame is expected

MaxFiles == 2
MaxUploads == 3             \* files selected in the uploader at once
NumLen == 4                 \* characters of a numeric cell
MaxRows == 2                \* rows of a table handed to a renderer on its own

(***************************************************************************)
(* Generic helpers on sequences                                            *)
(***************************************************************************)
Range(s) == { s[i] : i \in 1..Len(s) }

RECURSIVE SeqFilter(_, _)
SeqFilter(s, keep) ==
  IF s = << >> THEN << >>
  ELSE (IF Head(s) \in keep THEN << Head(s) >> ELSE << >>) \o SeqFilter(Tail(s), keep)

\* the sequences of at most n elements of a set
RECURSIVE Arrangements(_, _)
Arrangements(elems, n) ==
  IF n = 0 THEN { << >> }
  ELSE LET shorter == Arrangements(elems, n - 1)
       IN  shorter \cup { Append(l, e) : l \in shorter, e \in elems }

Contains(text, kw) ==
  \E i \in 1..(Len(text) - Len(kw) + 1) : SubSeq(text, i, i + Len(kw) - 1) = kw

UpperChars == <<"A","B","C","D","E","F","G","H","I","J","K","L","M","N","O","P","Q","R","S","T","U","V","W","X","Y","Z">>
LowerChars == <<"a","b","c","d","e","f","g","h","i","j","k","l","m","n","o","p","q","r","s","t","u","v","w","x","y","z">>

LowerChar(c) ==
  IF \E i \in 1..26 : UpperChars[i] = c
  THEN LowerChars[CHOOSE i \in 1..26 : UpperChars[i] = c]
  ELSE c

Lower(text) == [i \in 1..Len(text) |-> LowerChar(text[i])]

\* str.upper() of a text in the letters a-z
Upper(text) ==
  [i \in 1..Len(text) |->
     IF \E j \in 1..26 : LowerChars[j] = text[i]
     THEN UpperChars[CHOOSE j \in 1..26 : LowerChars[j] = text[i]]
     ELSE text[i]]

(***************************************************************************)
(* utils/data_loader.py                                                    *)
(***************************************************************************)
Categories ==
  {"Averias", "Desempeño", "Configuration", "Provision", "Disponibilidad", "Calidad", "Proyectos"}

initialize_session_state(ds) ==
  IF DOMAIN ds = {} THEN [c \in Categories |-> NoDf] ELSE ds

detection_rules ==
  << [type |-> "Averias", keywords |-> << <<"a","v","e","r","i","a">>, <<"a","l","a","r","m">>, <<"f","a","u","l","t">> >>],
     [type |-> "Desempeño", keywords |-> << <<"d","e","s","e","m","p","e">>, <<"p","e","r","f","o","r","m","a","n","c","e">>, <<"k","p","i">> >>],
     [type |-> "Configuration", keywords |-> << <<"c","o","n","f","i","g">>, <<"c","o","n","f","i","g","u","r","a","c","i","o","n">> >>],
     [type |-> "Provision", keywords |-> << <<"p","r","o","v","i","s","i","o","n">>, <<"p","r","o","v","i","s","i">> >>],
     [type |-> "Disponibilidad", keywords |-> << <<"d","i","s","p","o","n">>, <<"a","v","a","i","l","a","b","i","l","i","t","y">> >>],
     [type |-> "Calidad", keywords |-> << <<"c","a","l","i","d","a","d">>, <<"q","u","a","l","i","t","y">> >>],
     [type |-> "Proyectos", keywords |-> << <<"p","r","o","y","e","c","t","o">>, <<"p","r","o","j","e","c","t">>, <<"s","i","t","e">> >>] >>

RuleMatches(i, name) ==
  \E k \in 1..Len(detection_rules[i].keywords) : Contains(name, detection_rules[i].keywords[k])

\* detect_dataset_type that matches the file name as it is written
detect_dataset_type_cased(filename) ==
  LET name == filename
      hits == { i \in 1..Len(detection_rules) : RuleMatches(i, name) }
  IN  IF hits = {} THEN None
      ELSE detection_rules[CHOOSE i \in hits : \A j \in hits : i <= j].type

detect_dataset_type(filename) ==
  LET name == Lower(filename)
      hits == { i \in 1..Len(detection_rules) : RuleMatches(i, name) }
  IN  IF hits = {} THEN None
      ELSE detection_rules[CHOOSE i \in hits : \A j \in hits : i <= j].type

\* str.lower() of the column names that occur in the modelled files
ColumnLower(c) ==
  CASE c = "START_TIME.1" -> "start_time.1"
    [] c = "Site_Name" -> "site_name"
    [] c = "Departamento" -> "departamento"
    [] c = "Provincia" -> "provincia"
    [] c = "Distrito" -> "distrito"
    [] c = "Localidad" -> "localidad"
    [] OTHER -> c

IndexOfLower(cols, low) ==
  CHOOSE i \in 1..Len(cols) :
    ColumnLower(cols[i]) = low /\ \A j \in 1..(i - 1) : ColumnLower(cols[j]) # low

HasLower(cols, low) == \E i \in 1..Len(cols) : ColumnLower(cols[i]) = low

RemoveAt(cols, i) == SubSeq(cols, 1, i - 1) \o SubSeq(cols, i + 1, Len(cols))

\* df.drop(name, axis=1) without inplace=True, its result not assigned
DropColumn_noop(df, name) == df

\* df.drop(name, axis=1): every column with that label goes
DropColumn(df, name) ==
  LET keep == SeqFilter(df.cols, Range(df.cols) \ {name})
  IN  [cols |-> keep,
       rows |-> [r \in 1..Len(df.rows) |-> [c \in Range(keep) |-> df.rows[r][c]]]]

clean_and_reorder_columns(df) ==
  LET df1 == IF HasLower(df.cols, "start_time.1")
             THEN DropColumn(df, df.cols[IndexOfLower(df.cols, "start_time.1")])
             ELSE df
      c0 == df1.cols
      hasStart == HasLower(c0, "start_time")
      prio1 == IF hasStart THEN << c0[IndexOfLower(c0, "start_time")] >> ELSE << >>
      c1 == IF hasStart THEN RemoveAt(c0, IndexOfLower(c0, "start_time")) ELSE c0
      \* line 60 tests the list computed before start_time was removed
      hasEnd == HasLower(c0, "end_time") /\ HasLower(c1, "end_time")
      prio2 == IF hasEnd THEN << c1[IndexOfLower(c1, "end_time")] >> ELSE << >>
      c2 == IF hasEnd THEN RemoveAt(c1, IndexOfLower(c1, "end_time")) ELSE c1
  IN  [cols |-> prio1 \o prio2 \o c2, rows |-> df1.rows]

(***************************************************************************)
(* The files a user can put into the uploader.  A file has a name, the     *)
(* encoding of its bytes and the table its text spells (sep=";",           *)
(* dtype=str).  Numeric and date cells are character sequences.            *)
(***************************************************************************)
name_ProvisionA == <<"P","r","o","v","i","s","i","o","n","_","A",".","c","s","v">>
name_provisionB == <<"p","r","o","v","i","s","i","o","n","_","b",".","c","s","v">>
name_PROVISIONL == <<"P","R","O","V","I","S","I","O","N","_","L",".","c","s","v">>
name_kpisites == <<"K","P","I","_","s","i","t","e","s",".","c","s","v">>
name_notes == <<"N","o","t","e","s",".","c","s","v">>
name_kpi_empty == <<"k","p","i","_","e","m","p","t","y",".","c","s","v">>
name_config_header == <<"c","o","n","f","i","g","_","h","e","a","d","e","r",".","c","s","v">>

\* cells of numeric and date columns: text read with dtype=str, or missing
NaN == [kind |-> "nan"]
Str(text) == [kind |-> "str", text |-> text]

ProvCols == <<"Site_Name", "Departamento", "Provincia", "Distrito", "Localidad">>

\* a missing value in a column of plain texts.  read_csv loads the texts
\* "NaN", "nan" and the empty field as missing, so no loaded cell holds it.
Missing == "NaN"

\* a provisioning export with activation dates as the file writes them and
\* one site without a locality
TableA ==
  [cols |-> Append(ProvCols, "Fecha_Activacion"),
   rows |-> <<
     [Site_Name |-> "S1", Departamento |-> "lima",  Provincia |-> "P1", Distrito |-> "D1", Localidad |-> "L1",
      Fecha_Activacion |-> Str(<<"1","0","/","0","4","/","2","0","2","4">>)],
     [Site_Name |-> "S2", Departamento |-> "LIMA",  Provincia |-> "P1", Distrito |-> "D2", Localidad |-> "L1",
      Fecha_Activacion |-> Str(<<"1","/","4","/","2","0","2","4">>)],
     [Site_Name |-> "S3", Departamento |-> "LIMA",  Provincia |-> "P2", Distrito |-> "D1", Localidad |-> "L2",
      Fecha_Activacion |-> Str(<<"2","0","2","4","-","0","4","-","1","0">>)],
     [Site_Name |-> "S4", Departamento |-> "CUSCO", Provincia |-> "P1", Distrito |-> "D1", Localidad |-> Missing,
      Fecha_Activacion |-> NaN] >>]

\* a provisioning export without the Distrito column
TableB ==
  [cols |-> <<"Site_Name", "Departamento", "Provincia", "Localidad">>,
   rows |-> <<
     [Site_Name |-> "S5", Departamento |-> "AREQUIPA", Provincia |-> "P3", Localidad |-> "L1"] >>]

TableL ==
  [cols |-> ProvCols,
   rows |-> <<
     [Site_Name |-> "S7", Departamento |-> "CUSCO", Provincia |-> "P2", Distrito |-> "D2", Localidad |-> "L2"] >>]

TableKpi ==
  [cols |-> <<"site", "latency", "start_time", "START_TIME.1", "end_time">>,
   rows |-> <<
     ("START_TIME.1" :> Str(<<"x">>)) @@
     [site |-> "S1", latency |-> Str(<<"1",",","5">>),
      start_time |-> Str(<<"A","u","g"," ","1","8",","," ","2","0","2","5"," ","@"," ","0","6",":","0","0",":","0","0",".","0","0","0">>),
      end_time |-> Str(<<"A","u","g"," ","1","8",","," ","2","0","2","5"," ","@"," ","0","6",":","3","0",":","0","0",".","0","0","0">>)],
     ("START_TIME.1" :> NaN) @@
     [site |-> "S2", latency |-> NaN,
      start_time |-> Str(<<"s","o","o","n">>),
      end_time |-> NaN] >>]

\* a configuration export of a header line alone
TableHeader == [cols |-> <<"site", "TYPE BTS">>, rows |-> << >>]

Files ==
  [fA |-> [name |-> name_ProvisionA, encoding |-> "utf-8",   table |-> TableA],
   fB |-> [name |-> name_provisionB, encoding |-> "utf-8",   table |-> TableB],
   fL |-> [name |-> name_PROVISIONL, encoding |-> "latin-1", table |-> TableL],
   fK |-> [name |-> name_kpisites,   encoding |-> "utf-8",   table |-> TableKpi],
   \* a name without any keyword, and a file of zero bytes
   fN |-> [name |-> name_notes,      encoding |-> "utf-8",   table |-> TableA],
   fE |-> [name |-> name_kpi_empty,  encoding |-> "utf-8",   table |-> NoDf],
   \* a header line and no row
   fH |-> [name |-> name_config_header, encoding |-> "utf-8", table |-> TableHeader]]

FileIds == DOMAIN Files

\* the files of the user who drills down in the provisioning module
SessionFiles == {"fA", "fB", "fL", "fK"}

\* pd.read_csv on the file handle from read position pos.  A decode failure
\* leaves the handle where the failed read stopped: at the end of these
\* small files, which are buffered whole.
read_csv(f, pos, encoding) ==
  IF pos = "eof" \/ f.table = NoDf
  THEN [df |-> NoDf, exc |-> "EmptyDataError", pos |-> "eof"]
  ELSE IF encoding = "utf-8" /\ f.encoding # "utf-8"
       THEN [df |-> NoDf, exc |-> "UnicodeDecodeError", pos |-> "eof"]
       ELSE [df |-> f.table, exc |-> None, pos |-> "eof"]

\* load_csv_file that retries with Latin-1 after any failure of the first read
load_csv_file_retry_any(f) ==
  LET first == read_csv(f, "start", "utf-8")
  IN  IF first.exc = None
      THEN [df |-> clean_and_reorder_columns(first.df), error |-> None,
            attempts |-> << "utf-8" >>, pos |-> first.pos]
      ELSE LET second == read_csv(f, first.pos, "latin-1")
           IN  IF second.exc = None
               THEN [df |-> clean_and_reorder_columns(second.df), error |-> None,
                     attempts |-> << "utf-8", "latin-1" >>, pos |-> second.pos]
               ELSE [df |-> NoDf, error |-> "Error de codificación",
                     attempts |-> << "utf-8", "latin-1" >>, pos |-> second.pos]

\* attempts lists the encodings tried, pos is where the handle is left
load_csv_file(f) ==
  LET first == read_csv(f, "start", "utf-8")
  IN  IF first.exc = None
      THEN [df |-> clean_and_reorder_columns(first.df), error |-> None,
            attempts |-> << "utf-8" >>, pos |-> first.pos]
      ELSE IF first.exc = "UnicodeDecodeError"
           THEN LET second == read_csv(f, first.pos, "latin-1")
                IN  IF second.exc = None
                    THEN [df |-> clean_and_reorder_columns(second.df), error |-> None,
                          attempts |-> << "utf-8", "latin-1" >>, pos |-> second.pos]
                    ELSE [df |-> NoDf, error |-> "Error de codificación",
                          attempts |-> << "utf-8", "latin-1" >>, pos |-> second.pos]
           ELSE [df |-> NoDf, error |-> "Error al cargar archivo",
                 attempts |-> << "utf-8" >>, pos |-> first.pos]

(***************************************************************************)
(* utils/helpers.py                                                        *)
(***************************************************************************)
Digits == {"0","1","2","3","4","5","6","7","8","9"}
DigitVal(c) ==
  CASE c = "0" -> 0 [] c = "1" -> 1 [] c = "2" -> 2 [] c = "3" -> 3 [] c = "4" -> 4
    [] c = "5" -> 5 [] c = "6" -> 6 [] c = "7" -> 7 [] c = "8" -> 8 [] c = "9" -> 9

HasColumn(df, c) == c \in Range(df.cols)

get_dataset_info(df) ==
  IF df = NoDf \/ Len(df.rows) = 0
  THEN [status |-> "No cargado", rows |-> 0]
  ELSE [status |-> "Cargado", rows |-> Len(df.rows)]

find_site_column(df) ==
  LET site_columns == <<"Site_Name", "site_name", "SITE_NAME", "site">>
      hits == { i \in 1..Len(site_columns) : HasColumn(df, site_columns[i]) }
  IN  IF df = NoDf \/ hits = {} THEN None
      ELSE site_columns[CHOOSE i \in hits : \A j \in hits : i <= j]

\* str.strip(): leading and trailing blanks go
RECURSIVE LStrip(_)
LStrip(t) == IF t # << >> /\ Head(t) = " " THEN LStrip(Tail(t)) ELSE t
RECURSIVE RStrip(_)
RStrip(t) == IF t # << >> /\ t[Len(t)] = " " THEN RStrip(SubSeq(t, 1, Len(t) - 1)) ELSE t
Strip(t) == RStrip(LStrip(t))

\* str.replace(old, new): every non-overlapping occurrence, left to right
RECURSIVE Replace(_, _, _)
Replace(t, old, new) ==
  IF Len(t) < Len(old) THEN t
  ELSE IF SubSeq(t, 1, Len(old)) = old
       THEN new \o Replace(SubSeq(t, Len(old) + 1, Len(t)), old, new)
       ELSE << Head(t) >> \o Replace(Tail(t), old, new)

\* str.split(','): the pieces between the commas
RECURSIVE Split(_, _)
Split(t, sep) ==
  IF \A i \in 1..Len(t) : t[i] # sep THEN << t >>
  ELSE LET i == CHOOSE k \in 1..Len(t) : t[k] = sep /\ \A j \in 1..(k - 1) : t[j] # sep
       IN  << SubSeq(t, 1, i - 1) >> \o Split(SubSeq(t, i + 1, Len(t)), sep)

\* a float as its canonical decimal digits
Num(neg, int, frac) == [kind |-> "num", neg |-> neg, int |-> int, frac |-> frac]

RECURSIVE DropLeadingZeros(_)
DropLeadingZeros(d) ==
  IF Len(d) > 1 /\ Head(d) = "0" THEN DropLeadingZeros(Tail(d)) ELSE d
RECURSIVE DropTrailingZeros(_)
DropTrailingZeros(d) ==
  IF d # << >> /\ d[Len(d)] = "0" THEN DropTrailingZeros(SubSeq(d, 1, Len(d) - 1)) ELSE d

\* str(value) of a cell
CellText(value) ==
  IF value.kind = "str" THEN value.text
  ELSE (IF value.neg THEN <<"-">> ELSE << >>) \o value.int \o <<".">>
       \o (IF value.frac = << >> THEN <<"0">> ELSE value.frac)

\* clean_european_number that takes a group of three for thousands
clean_european_number_lt3(value) ==
  IF value.kind = "nan" THEN NaN
  ELSE
    LET str_val == Replace(Strip(CellText(value)), <<"\"">>, << >>)
        hasComma == \E i \in 1..Len(str_val) : str_val[i] = ","
        hasDot == \E i \in 1..Len(str_val) : str_val[i] = "."
        parts == Split(str_val, ",")
    IN  IF ~ \E i \in 1..Len(str_val) : str_val[i] \in Digits THEN NaN
        ELSE IF hasComma /\ hasDot THEN Str(Replace(str_val, <<",">>, << >>))
        ELSE IF hasComma /\ ~hasDot
             THEN IF Len(parts) = 2 /\ Len(parts[2]) < 3 /\ Len(parts[2]) > 0
                  THEN Str(Replace(str_val, <<",">>, <<".">>))
                  ELSE Str(Replace(str_val, <<",">>, << >>))
        ELSE Str(str_val)

clean_european_number(value) ==
  IF value.kind = "nan" THEN NaN
  ELSE
    LET str_val == Replace(Strip(CellText(value)), <<"\"">>, << >>)
        hasComma == \E i \in 1..Len(str_val) : str_val[i] = ","
        hasDot == \E i \in 1..Len(str_val) : str_val[i] = "."
        parts == Split(str_val, ",")
    IN  IF ~ \E i \in 1..Len(str_val) : str_val[i] \in Digits THEN NaN
        ELSE IF hasComma /\ hasDot THEN Str(Replace(str_val, <<",">>, << >>))
        ELSE IF hasComma /\ ~hasDot
             THEN IF Len(parts) = 2 /\ Len(parts[2]) <= 3 /\ Len(parts[2]) > 0
                  THEN Str(Replace(str_val, <<",">>, <<".">>))
                  ELSE Str(Replace(str_val, <<",">>, << >>))
        ELSE Str(str_val)

\* pd.to_numeric(errors='ignore'): a cell that spells no number keeps its text
to_numeric_ignore(value) ==
  IF value.kind # "str" THEN value
  ELSE
    LET t == Strip(value.text)
        neg == t # << >> /\ Head(t) = "-"
        body == IF t # << >> /\ Head(t) \in {"-", "+"} THEN Tail(t) ELSE t
        dots == { i \in 1..Len(body) : body[i] = "." }
        wellFormed == /\ \A i \in 1..Len(body) : body[i] \in Digits \cup {"."}
                      /\ Cardinality(dots) <= 1
                      /\ \E i \in 1..Len(body) : body[i] \in Digits
        p == IF dots = {} THEN Len(body) + 1 ELSE CHOOSE i \in dots : TRUE
        int == SubSeq(body, 1, p - 1)
        frac == SubSeq(body, p + 1, Len(body))
    IN  IF ~wellFormed THEN value
        ELSE Num(neg, DropLeadingZeros(IF int = << >> THEN <<"0">> ELSE int),
                 DropTrailingZeros(frac))

\* pd.to_numeric(errors='coerce') on one cell: sign, digits and at most one
\* point, with blanks around; anything else is NaN
to_numeric(value) ==
  IF value.kind # "str" THEN value
  ELSE
    LET t == Strip(value.text)
        neg == t # << >> /\ Head(t) = "-"
        body == IF t # << >> /\ Head(t) \in {"-", "+"} THEN Tail(t) ELSE t
        dots == { i \in 1..Len(body) : body[i] = "." }
        wellFormed == /\ \A i \in 1..Len(body) : body[i] \in Digits \cup {"."}
                      /\ Cardinality(dots) <= 1
                      /\ \E i \in 1..Len(body) : body[i] \in Digits
        p == IF dots = {} THEN Len(body) + 1 ELSE CHOOSE i \in dots : TRUE
        int == SubSeq(body, 1, p - 1)
        frac == SubSeq(body, p + 1, Len(body))
    IN  IF ~wellFormed THEN NaN
        ELSE Num(neg, DropLeadingZeros(IF int = << >> THEN <<"0">> ELSE int),
                 DropTrailingZeros(frac))

SetColumn(df, col, cellOf(_)) ==
  [cols |-> IF HasColumn(df, col) THEN df.cols ELSE Append(df.cols, col),
   rows |-> [r \in 1..Len(df.rows) |->
               [c \in Range(df.cols) \cup {col} |->
                  IF c = col THEN cellOf(r) ELSE df.rows[r][c]]]]

RECURSIVE CleanColumns(_, _)
CleanColumns(df_clean, columns) ==
  IF columns = << >> THEN df_clean
  ELSE CleanColumns(IF HasColumn(df_clean, Head(columns))
                    THEN SetColumn(df_clean, Head(columns),
                                   LAMBDA r : to_numeric(clean_european_number(
                                                df_clean.rows[r][Head(columns)])))
                    ELSE df_clean,
                    Tail(columns))

\* clean_numeric_data writing into df itself (no df.copy())
clean_numeric_data_inplace(df, columns) ==
  [arg |-> CleanColumns(df, columns), result |-> CleanColumns(df, columns)]

\* A call that receives a DataFrame object returns its result and leaves the
\* caller's object in some state: arg is the caller's object after the call.
clean_numeric_data(df, columns) ==
  [arg |-> df, result |-> CleanColumns(df, columns)]

NaT == [kind |-> "nat"]
Timestamp(y, mo, d, h, mi, sec) ==
  [kind |-> "ts", year |-> y, month |-> mo, day |-> d,
   hour |-> h, minute |-> mi, second |-> sec]

DigitChar(n) == CHOOSE c \in Digits : DigitVal(c) = n
Padded2(n) == << DigitChar(n \div 10), DigitChar(n % 10) >>

\* str(Timestamp): "2025-08-18 06:00:00"
TimestampText(ts) ==
  Padded2(ts.year \div 100) \o Padded2(ts.year % 100) \o <<"-">> \o Padded2(ts.month)
    \o <<"-">> \o Padded2(ts.day) \o <<" ">> \o Padded2(ts.hour) \o <<":">>
    \o Padded2(ts.minute) \o <<":">> \o Padded2(ts.second)

\* str(date_str) of a cell of a date column
DateText(date_str) ==
  IF date_str.kind = "ts" THEN TimestampText(date_str) ELSE CellText(date_str)

\* clean_date_format that leaves the " @ " between date and time
clean_date_format_keep_at(date_str) ==
  IF date_str.kind \in {"nan", "nat"} THEN NaN
  ELSE IF DateText(date_str) = << >> \/ Lower(DateText(date_str)) = <<"n","a","n">> THEN NaN
  ELSE Str(Strip(Replace(DateText(date_str), <<".","0","0","0">>, << >>)))

\* clean_date_format: None for a missing, empty or 'nan' value
clean_date_format(date_str) ==
  IF date_str.kind \in {"nan", "nat"} THEN NaN
  ELSE IF DateText(date_str) = << >> \/ Lower(DateText(date_str)) = <<"n","a","n">> THEN NaN
  ELSE Str(Strip(Replace(Replace(DateText(date_str), <<" ","@"," ">>, <<" ">>),
                         <<".","0","0","0">>, << >>)))

MonthNames ==
  << <<"j","a","n">>, <<"f","e","b">>, <<"m","a","r">>, <<"a","p","r">>,
     <<"m","a","y">>, <<"j","u","n">>, <<"j","u","l">>, <<"a","u","g">>,
     <<"s","e","p">>, <<"o","c","t">>, <<"n","o","v">>, <<"d","e","c">> >>

IsLeap(y) == (y % 4 = 0 /\ y % 100 # 0) \/ y % 400 = 0
DaysInMonth(y, m) ==
  IF m = 2 THEN (IF IsLeap(y) THEN 29 ELSE 28)
  ELSE IF m \in {4, 6, 9, 11} THEN 30 ELSE 31

TwoDigits(t, i) == 10 * DigitVal(t[i]) + DigitVal(t[i + 1])

\* pd.to_datetime(format='%b %d, %Y %H:%M:%S', errors='coerce') on one cell
\* whose fields are written with two digits: "Aug 18, 2025 06:00:00"
to_datetime(value) ==
  IF value.kind = "ts" THEN value
  ELSE IF value.kind # "str" THEN NaT
  ELSE
    LET t == value.text
        shape == /\ Len(t) = 21
                 /\ t[4] = " " /\ t[7] = "," /\ t[8] = " " /\ t[13] = " "
                 /\ t[16] = ":" /\ t[19] = ":"
                 /\ \A i \in {5, 6, 9, 10, 11, 12, 14, 15, 17, 18, 20, 21} : t[i] \in Digits
                 /\ \E m \in 1..12 : MonthNames[m] = Lower(SubSeq(t, 1, 3))
        mo == CHOOSE m \in 1..12 : MonthNames[m] = Lower(SubSeq(t, 1, 3))
        y == 100 * TwoDigits(t, 9) + TwoDigits(t, 11)
        d == TwoDigits(t, 5)
        h == TwoDigits(t, 14)
        mi == TwoDigits(t, 17)
        sec == TwoDigits(t, 20)
    IN  IF shape /\ d >= 1 /\ d <= DaysInMonth(y, mo) /\ h <= 23 /\ mi <= 59 /\ sec <= 61
        THEN Timestamp(y, mo, d, h, mi, sec)
        ELSE NaT

\* days since 1970-01-01 of a civil date
DaysFromCivil(y, m, d) ==
  LET yy == IF m <= 2 THEN y - 1 ELSE y
      era == yy \div 400
      yoe == yy - era * 400
      doy == (153 * (IF m > 2 THEN m - 3 ELSE m + 9) + 2) \div 5 + d - 1
      doe == yoe * 365 + yoe \div 4 - yoe \div 100 + doy
  IN  era * 146097 + doe - 719468

DayNames == <<"Thursday", "Friday", "Saturday", "Sunday", "Monday", "Tuesday", "Wednesday">>
day_name(ts) == DayNames[(DaysFromCivil(ts.year, ts.month, ts.day) % 7) + 1]

EpochSeconds(ts) ==
  DaysFromCivil(ts.year, ts.month, ts.day) * 86400 + ts.hour * 3600 + ts.minute * 60 + ts.second

\* pd.api.types.is_datetime64_any_dtype: the column was overwritten by to_datetime
IsDatetimeColumn(df, col) ==
  /\ Len(df.rows) > 0
  /\ \A r \in 1..Len(df.rows) : df.rows[r][col].kind \in {"ts", "nat"}

DerivedCell(ts, field) ==
  IF ts.kind = "nat" THEN NaN
  ELSE CASE field = "hour" -> [kind |-> "int", value |-> ts.hour]
         [] field = "date" -> [kind |-> "date", year |-> ts.year, month |-> ts.month, day |-> ts.day]
         [] field = "day_of_week" -> [kind |-> "name", value |-> day_name(ts)]
         [] field = "month" -> [kind |-> "int", value |-> ts.month]
         [] field = "year" -> [kind |-> "int", value |-> ts.year]

RECURSIVE AddDerived(_, _, _)
AddDerived(df, fields, series) ==
  IF fields = << >> THEN df
  ELSE AddDerived(SetColumn(df, Head(fields), LAMBDA r : DerivedCell(series[r], Head(fields))),
                  Tail(fields), series)

\* DurationCell that leaves the duration in seconds
DurationCell_seconds(a, b) ==
  IF a.kind = "nat" \/ b.kind = "nat" THEN NaN
  ELSE [kind |-> "ratio", num |-> EpochSeconds(b) - EpochSeconds(a), den |-> 1]

\* helpers.py 153-154 on one row: (end - start).dt.total_seconds() / 60,
\* a duration being the quotient num / den
DurationCell(a, b) ==
  IF a.kind = "nat" \/ b.kind = "nat" THEN NaN
  ELSE [kind |-> "ratio", num |-> EpochSeconds(b) - EpochSeconds(a), den |-> 60]

\* helpers.py 147-154
AddDuration(df_result) ==
  IF /\ HasColumn(df_result, "start_time") /\ HasColumn(df_result, "end_time")
     /\ IsDatetimeColumn(df_result, "start_time") /\ IsDatetimeColumn(df_result, "end_time")
  THEN SetColumn(df_result, "duration_minutes",
                 LAMBDA r : DurationCell(df_result.rows[r]["start_time"],
                                         df_result.rows[r]["end_time"]))
  ELSE df_result

\* helpers.py 115: the temporary column <column_name>_clean
WithCleanColumn(df, column_name) ==
  SetColumn(df, column_name \o "_clean",
            LAMBDA r : clean_date_format(df.rows[r][column_name]))

\* helpers.py 118-122: pd.to_datetime of the temporary column
DatetimeSeries(df_result, column_name) ==
  [r \in 1..Len(df_result.rows) |-> to_datetime(df_result.rows[r][column_name \o "_clean"])]

\* helpers.py 125: (~datetime_series.isna()).sum()
ValidDates(datetime_series) ==
  Cardinality({ r \in DOMAIN datetime_series : datetime_series[r].kind = "ts" })

\* helpers.py 131-137
WithDerivedFields(df_result, create_derived_fields, datetime_series) ==
  IF create_derived_fields
  THEN AddDerived(df_result, <<"hour", "date", "day_of_week", "month", "year">>, datetime_series)
  ELSE df_result

\* Converted that overwrites the column whether or not a row parsed
Converted_always(df_result, column_name, create_derived_fields, datetime_series) ==
  WithDerivedFields(SetColumn(df_result, column_name, LAMBDA r : datetime_series[r]),
                    create_derived_fields, datetime_series)

\* helpers.py 127-141: the column is overwritten only when some row parsed
Converted(df_result, column_name, create_derived_fields, datetime_series) ==
  IF ValidDates(datetime_series) > 0
  THEN WithDerivedFields(SetColumn(df_result, column_name, LAMBDA r : datetime_series[r]),
                         create_derived_fields, datetime_series)
  ELSE df_result

\* helpers.py 125-156: what the try block returns for a parsed series
ParsedSeries(df_result, column_name, create_derived_fields, datetime_series) ==
  [df |-> AddDuration(DropColumn(Converted(df_result, column_name, create_derived_fields,
                                           datetime_series),
                                 column_name \o "_clean")),
   success |-> ValidDates(datetime_series) > 0]

\* helpers.py 118-156: the try block once the temporary column exists
ParsedClean(df_result, column_name, create_derived_fields) ==
  ParsedSeries(df_result, column_name, create_derived_fields,
               DatetimeSeries(df_result, column_name))

\* helpers.py 113-156: the body of the try block
ParsedFrame(df, column_name, create_derived_fields) ==
  ParsedClean(WithCleanColumn(df, column_name), column_name, create_derived_fields)

\* helpers.py 156: the tuple returned by the try block
ParseReturn(df, p) == [arg |-> df, result |-> p.df, success |-> p.success]

\* arg is the caller's DataFrame after the call (the function works on df.copy())
parse_datetime_column(df, column_name, create_derived_fields) ==
  IF ~HasColumn(df, column_name)
  THEN [arg |-> df, result |-> df, success |-> FALSE]
  ELSE ParseReturn(df, ParsedFrame(df, column_name, create_derived_fields))

(***************************************************************************)
(* modules/*.py: what each renderer does to the DataFrame objects it is     *)
(* handed (arg: the caller's object after the call)                        *)
(***************************************************************************)
LowerColumns(df) ==
  [cols |-> [i \in 1..Len(df.cols) |-> ColumnLower(df.cols[i])],
   rows |-> [r \in 1..Len(df.rows) |->
               [c \in { ColumnLower(x) : x \in Range(df.cols) } |->
                  df.rows[r][CHOOSE x \in Range(df.cols) : ColumnLower(x) = c]]]]

\* str(value) of a cell: what astype(str) makes of it
AsText(value) ==
  IF value.kind = "nan" THEN <<"n","a","n">>
  ELSE IF value.kind = "nat" THEN <<"N","a","T">>
  ELSE DateText(value)

\* averias.py 90 and 96
averias_geo_columns == <<"región", "provincia", "distrito", "localidad", "region">>
status_columns == <<"alarm_status", "status", "estado">>

\* averias.py 89-99: the geographic columns in capitals and the status
\* columns in small letters, both as text (a missing value becomes the
\* text of nan)
FormatAverias(df_formatted) ==
  [cols |-> df_formatted.cols,
   rows |-> [r \in 1..Len(df_formatted.rows) |->
               [c \in Range(df_formatted.cols) |->
                  IF c \in Range(averias_geo_columns)
                  THEN Str(Upper(AsText(df_formatted.rows[r][c])))
                  ELSE IF c \in Range(status_columns)
                  THEN Str(Lower(AsText(df_formatted.rows[r][c])))
                  ELSE df_formatted.rows[r][c]]]]

\* averias.py 78-106: the module works on df_averias.copy() with lower-cased
\* column names and normalised geographic and status columns
create_averias_dashboard(df_averias, df_proyectos) ==
  IF df_averias = NoDf
  THEN [arg |-> df_averias, arg2 |-> df_proyectos, processed |-> NoDf]
  ELSE [arg |-> df_averias, arg2 |-> df_proyectos,
        processed |->
          parse_datetime_column(
            parse_datetime_column(FormatAverias(LowerColumns(df_averias)),
                                  "start_time", TRUE).result,
            "end_time", FALSE).result]

performance_numeric_columns ==
  <<"dl_data_traffic_mb", "ul_data_traffic_mb", "enodeb_dl_tgput_mb",
    "lte_dl_cell_tgput_mb", "lte_ul_cell_tgput_mb", "lte_tu_prb_dl",
    "average_number_user", "enodeb_ul_tgput_mb", "latency",
    "tcp_pckt_loss_ratio", "voice_traffic">>

create_performance_dashboard(df_performance) ==
  IF df_performance = NoDf THEN [arg |-> df_performance, processed |-> NoDf]
  ELSE [arg |-> clean_numeric_data(df_performance, performance_numeric_columns).arg,
        processed |->
          parse_datetime_column(
            parse_datetime_column(
              clean_numeric_data(df_performance, performance_numeric_columns).result,
              "start_time", TRUE).result,
            "end_time", FALSE).result]

create_configuration_dashboard(df_config) == [arg |-> df_config]

availability_numeric_columns == <<"cell_serv_time">>

create_availability_dashboard(df_availability) ==
  IF df_availability = NoDf THEN [arg |-> df_availability, processed |-> NoDf]
  ELSE [arg |-> clean_numeric_data(df_availability, availability_numeric_columns).arg,
        processed |->
          parse_datetime_column(
            clean_numeric_data(df_availability, availability_numeric_columns).result,
            "start_time", TRUE).result]

quality_numeric_columns ==
  <<"lte_rrc_setup_suc", "lte_rrc_attempt", "fails_rrc_setup", "lte_rrc_sr",
    "init_e_rab_suc_setup", "add_e_rab_suc_setup", "add_e_rab_setup_att",
    "init_e_rab_setup_att", "lte_e_rab_sr", "lte_call_drop",
    "lte_call_attempt", "lte_cdr">>

create_quality_dashboard(df_quality) ==
  IF df_quality = NoDf THEN [arg |-> df_quality, processed |-> NoDf]
  ELSE [arg |-> clean_numeric_data(df_quality, quality_numeric_columns).arg,
        processed |->
          parse_datetime_column(
            clean_numeric_data(df_quality, quality_numeric_columns).result,
            "start_time", TRUE).result]

(***************************************************************************)
(* modules/provision.py: formatting and the drill-down state               *)
(***************************************************************************)
Placeholder == "Seleccionar..."

\* astype(str).str.upper() of the geographic values that occur in the
\* modelled files: a missing value becomes the text "nan", then "NAN"
UpperStr(v) == IF v = Missing THEN "NAN" ELSE IF v = "lima" THEN "LIMA" ELSE v

\* sorted(): the geographic values in lexicographic order
GeoOrder ==
  <<"AREQUIPA", "CUSCO", "D1", "D2", "L1", "L2", "LIMA", "NAN", "P1", "P2", "P3">>
Sorted(values) == SeqFilter(GeoOrder, values)

geo_columns == <<"Departamento", "Provincia", "Distrito", "Localidad">>

\* a number written with one of the given counts of digits
IsNumber(t, lengths) == Len(t) \in lengths /\ \A i \in 1..Len(t) : t[i] \in Digits

RECURSIVE DigitsValue(_)
DigitsValue(t) ==
  IF t = << >> THEN 0
  ELSE 10 * DigitsValue(SubSeq(t, 1, Len(t) - 1)) + DigitVal(t[Len(t)])

\* %d: one or two digits, or a blank and a digit
IsDay(t) == IsNumber(t, {1, 2}) \/ (Len(t) = 2 /\ t[1] = " " /\ t[2] \in Digits)
DayValue(t) == IF t[1] = " " THEN DigitVal(t[2]) ELSE DigitsValue(t)

\* the dates a datetime64[ns] holds: 1677-09-22 to 2262-04-11
InTimestampRange(y, m, d) ==
  /\ DaysFromCivil(y, m, d) >= DaysFromCivil(1677, 9, 22)
  /\ DaysFromCivil(y, m, d) <= DaysFromCivil(2262, 4, 11)

\* the three parts of a text that matches '%d/%m/%Y'
DayMonthYear(parts) ==
  IF /\ Len(parts) = 3
     /\ IsDay(parts[1]) /\ IsNumber(parts[2], {1, 2}) /\ IsNumber(parts[3], {4})
     /\ DigitsValue(parts[2]) \in 1..12
     /\ DayValue(parts[1]) >= 1
     /\ DayValue(parts[1]) <= DaysInMonth(DigitsValue(parts[3]), DigitsValue(parts[2]))
     /\ InTimestampRange(DigitsValue(parts[3]), DigitsValue(parts[2]), DayValue(parts[1]))
  THEN Timestamp(DigitsValue(parts[3]), DigitsValue(parts[2]), DayValue(parts[1]), 0, 0, 0)
  ELSE NaT

\* provision.py 30: pd.to_datetime(format='%d/%m/%Y', errors='coerce') on one cell
to_datetime_dmy(value) ==
  IF value.kind # "str" THEN NaT ELSE DayMonthYear(Split(value.text, "/"))

\* provision.py 31: .dt.strftime('%d/%m/%Y') on one cell, missing for NaT
strftime_dmy(ts) ==
  IF ts.kind = "nat" THEN NaN
  ELSE Str(Padded2(ts.day) \o <<"/">> \o Padded2(ts.month) \o <<"/">>
             \o Padded2(ts.year \div 100) \o Padded2(ts.year % 100))

\* provision.py 17-35: the geographic columns as text in capitals, the
\* activation date parsed and written again as dd/mm/YYYY
FormatProvision(df_provision) ==
  [cols |-> df_provision.cols,
   rows |-> [r \in 1..Len(df_provision.rows) |->
               [c \in Range(df_provision.cols) |->
                  IF c \in Range(geo_columns)
                  THEN UpperStr(df_provision.rows[r][c])
                  ELSE IF c = "Fecha_Activacion"
                  THEN strftime_dmy(to_datetime_dmy(df_provision.rows[r][c]))
                  ELSE df_provision.rows[r][c]]]]

available_hierarchy(df) == SeqFilter(geo_columns, Range(df.cols))

Unique(df, col) == { df.rows[r][col] : r \in 1..Len(df.rows) }

\* df[df[col] == value]
FilterEq(df, col, value) ==
  [cols |-> df.cols,
   rows |-> SeqFilter(df.rows, { row \in Range(df.rows) : row[col] = value })]

NoDrill == [created |-> FALSE]

DrillInit ==
  [created |-> TRUE, current_level |-> 0,
   selected_departamento |-> None, selected_provincia |-> None,
   selected_distrito |-> None, selected_localidad |-> None]

\* reset_lower_levels with the district test written `from_level < 2`
reset_lower_levels_shallow(state, from_level) ==
  [state EXCEPT
     !.selected_provincia = IF from_level <= 1 THEN None ELSE @,
     !.selected_distrito  = IF from_level < 2 THEN None ELSE @,
     !.selected_localidad = IF from_level <= 3 THEN None ELSE @]

\* reset_lower_levels with the comparisons turned round: it clears the
\* levels above the recorded one
reset_lower_levels_upward(state, from_level) ==
  [state EXCEPT
     !.selected_departamento = IF from_level >= 2 THEN None ELSE @,
     !.selected_provincia = IF from_level >= 3 THEN None ELSE @]

reset_lower_levels(state, from_level) ==
  [state EXCEPT
     !.selected_provincia = IF from_level <= 1 THEN None ELSE @,
     !.selected_distrito  = IF from_level <= 2 THEN None ELSE @,
     !.selected_localidad = IF from_level <= 3 THEN None ELSE @]

\* truth value of a stored selection in `if state[...]:`
Truthy(v) == v # None /\ v # ""

LevelField(level) ==
  CASE level = 1 -> "selected_departamento"
    [] level = 2 -> "selected_provincia"
    [] level = 3 -> "selected_distrito"
    [] level = 4 -> "selected_localidad"

\* RecordSelection without the test for the placeholder
RecordSelection_any(state, level, selected) ==
  IF state[LevelField(level)] # selected
  THEN reset_lower_levels([state EXCEPT ![LevelField(level)] = selected], level)
  ELSE state

\* lines 156-159, 209-212, 273-276: record the selectbox value
RecordSelection(state, level, selected) ==
  IF selected # Placeholder
  THEN IF state[LevelField(level)] # selected
       THEN reset_lower_levels([state EXCEPT ![LevelField(level)] = selected], level)
       ELSE state
  ELSE state

(***************************************************************************)
(* modules/averias.py: the geography filter                                *)
(***************************************************************************)
mapping_columns == <<"SITE_NAME", "Región", "Provincia", "Distrito", "Localidad">>

\* [col for col in required_cols if col in df_proyectos.columns]
existing_cols(df_proyectos) == SeqFilter(mapping_columns, Range(df_proyectos.cols))

\* df[cols]
SelectColumns(df, cols) ==
  [cols |-> cols,
   rows |-> [r \in 1..Len(df.rows) |-> [c \in Range(cols) |-> df.rows[r][c]]]]

\* the rows without the repetitions of an earlier row
RECURSIVE FirstOccurrences(_)
FirstOccurrences(rows) ==
  IF rows = << >> THEN << >>
  ELSE IF rows[Len(rows)] \in Range(SubSeq(rows, 1, Len(rows) - 1))
       THEN FirstOccurrences(SubSeq(rows, 1, Len(rows) - 1))
       ELSE Append(FirstOccurrences(SubSeq(rows, 1, Len(rows) - 1)), rows[Len(rows)])

\* df.drop_duplicates()
drop_duplicates(df) == [cols |-> df.cols, rows |-> FirstOccurrences(df.rows)]

\* df[df[col].isin(values)]
FilterIsin(df, col, values) ==
  [cols |-> df.cols,
   rows |-> SeqFilter(df.rows, { row \in Range(df.rows) : row[col] \in values })]

\* averias.py 43-50: one level of the hierarchy; a selection is the set of
\* the chosen values, empty for [] and for None
FilterLevel(mapping, col, selection) ==
  IF selection # {} /\ HasColumn(mapping, col)
  THEN FilterIsin(mapping, col, selection)
  ELSE mapping

\* averias.py 38-50
filtered_mapping(df_proyectos, region_sel, provincia_sel, distrito_sel, localidad_sel) ==
  FilterLevel(
    FilterLevel(
      FilterLevel(
        FilterLevel(drop_duplicates(SelectColumns(df_proyectos, existing_cols(df_proyectos))),
                    "Región", region_sel),
        "Provincia", provincia_sel),
      "Distrito", distrito_sel),
    "Localidad", localidad_sel)

\* sorted(): the site names in lexicographic order
SiteOrder == << <<"S","1">>, <<"S","2">>, <<"S","3">> >>

\* the rows of one group of groupby(key)
GroupRows(df, key, value) ==
  SeqFilter(df.rows, { row \in Range(df.rows) : row[key] = value })

\* GroupBy.first(): the first value of the column that is not missing
FirstValid(rows, col) ==
  IF \A i \in 1..Len(rows) : rows[i][col] = NaN THEN NaN
  ELSE rows[CHOOSE i \in 1..Len(rows) :
              rows[i][col] # NaN /\ \A j \in 1..(i - 1) : rows[j][col] = NaN][col]

\* the keys of groupby(key), sorted; a missing key makes no group
GroupKeys(df, key) ==
  SeqFilter([i \in 1..Len(SiteOrder) |-> Str(SiteOrder[i])], Unique(df, key))

\* a merge with the mapping itself, every row of a site kept
GroupFirst_all(df, key) == df

\* df.groupby(key).first().reset_index()
GroupFirst(df, key) ==
  [cols |-> << key >> \o SeqFilter(df.cols, Range(df.cols) \ {key}),
   rows |-> [g \in 1..Len(GroupKeys(df, key)) |->
               [c \in Range(df.cols) |->
                  IF c = key THEN GroupKeys(df, key)[g]
                  ELSE FirstValid(GroupRows(df, key, GroupKeys(df, key)[g]), c)]]]

\* one row of left.merge(right, how="left"): a copy per matching row of
\* right, or one copy with the columns of right missing
MergedRows(row, right, left_on, right_on) ==
  IF \A m \in Range(right.rows) : m[right_on] # row[left_on]
  THEN << [c \in DOMAIN row \cup Range(right.cols) |->
             IF c \in DOMAIN row THEN row[c] ELSE NaN] >>
  ELSE [k \in 1..Len(GroupRows(right, right_on, row[left_on])) |->
          [c \in DOMAIN row \cup Range(right.cols) |->
             IF c \in DOMAIN row THEN row[c]
             ELSE GroupRows(right, right_on, row[left_on])[k][c]]]

RECURSIVE MergeRows(_, _, _, _)
MergeRows(rows, right, left_on, right_on) ==
  IF rows = << >> THEN << >>
  ELSE MergedRows(Head(rows), right, left_on, right_on)
         \o MergeRows(Tail(rows), right, left_on, right_on)

\* left.merge(right, how="left", left_on=..., right_on=...) of two tables
\* that share no column name
merge_left(left, right, left_on, right_on) ==
  [cols |-> left.cols \o right.cols,
   rows |-> MergeRows(left.rows, right, left_on, right_on)]

Returned_df(df) == [raised |-> FALSE, df |-> df]
KeyError == [raised |-> TRUE]

\* averias.py 52-68: the faults of the valid sites with the attributes of
\* their site
FaultsOfMapping(df_averias, mapping, site_column) ==
  IF ~HasColumn(mapping, "SITE_NAME") THEN KeyError
  ELSE IF site_column = None THEN Returned_df(df_averias)
  ELSE Returned_df(merge_left(FilterIsin(df_averias, site_column, Unique(mapping, "SITE_NAME")),
                              GroupFirst(mapping, "SITE_NAME"),
                              site_column, "SITE_NAME"))

\* averias.py 23-70
filter_averias_by_geography(df_averias, df_proyectos, region_sel, provincia_sel, distrito_sel, localidad_sel) ==
  IF df_proyectos = NoDf THEN Returned_df(df_averias)
  ELSE IF Len(existing_cols(df_proyectos)) < 2 THEN Returned_df(df_averias)
  ELSE FaultsOfMapping(df_averias,
                       filtered_mapping(df_proyectos, region_sel, provincia_sel,
                                        distrito_sel, localidad_sel),
                       find_site_column(df_averias))

(***************************************************************************)
(* Streamlit: keyed selectboxes                                            *)
(***************************************************************************)
WidgetKeys == {"provision_departamento", "provision_provincia", "provision_distrito"}
KeyOfLevel(level) ==
  CASE level = 1 -> "provision_departamento"
    [] level = 2 -> "provision_provincia"
    [] level = 3 -> "provision_distrito"

Unregistered == [registered |-> FALSE, value |-> Placeholder, options |-> << >>]

\* st.selectbox(label, options, index=0, key=k): the values the call can return.
\* The frontend value survives a rerun while the widget keeps its identity.
\* When the options differ from those of the last run, the value is dropped
\* (identity includes the options) or kept if it is still an option
\* (identity is the key), depending on the Streamlit build.
SelectboxReturn(w, options) ==
  IF w.registered /\ w.options = options THEN {w.value}
  ELSE IF w.registered /\ w.value \in Range(options) THEN {w.value, options[1]}
  ELSE {options[1]}

\* end of a run that was not cut by an exception: the state of widgets that
\* were not rendered in the run is dropped
CullWidgets(w, ids) == [k \in WidgetKeys |-> IF k \in ids THEN w[k] ELSE Unregistered]
(***************************************************************************)
(* State machine                                                           *)
(***************************************************************************)
NotShown == [shown |-> FALSE, rows |-> << >>]
Event(kind, key, value) == [kind |-> kind, key |-> key, value |-> value]
NoEvent == Event("none", "-", "-")

NoCall == [fn |-> "none"]
Pending == [pending |-> TRUE]

\* file_uploader hands a fresh handle for every file in every run
FreshHandles(files) == [i \in 1..Len(files) |-> "start"]

\* the session before its first run
SessionInit ==
  /\ datasets = [c \in {} |-> NoDf]
  /\ uploaded_files = << >>
  /\ messages = << >>
  /\ handles = << >>
  /\ drill = NoDrill
  /\ widget = [k \in WidgetKeys |-> Unregistered]
  /\ ids_this_run = {}
  /\ clicked = "none"
  /\ pc = "init"
  /\ fileIdx = 1
  /\ trigger = Event("open", "-", "-")
  /\ outcome = "ok"
  /\ siteTable = NotShown

Init ==
  /\ SessionInit
  /\ fn_args = NoCall
  /\ fn_result = Pending

\* app.py 57-59: a run starts
StartRun ==
  /\ pc = "init"
  /\ datasets' = initialize_session_state(datasets)
  /\ pc' = "upload"
  /\ fileIdx' = 1
  /\ ids_this_run' = {}
  /\ siteTable' = NotShown
  /\ outcome' = "running"
  /\ messages' = << >>
  /\ handles' = FreshHandles(uploaded_files)
  /\ UNCHANGED << fn_args, fn_result, uploaded_files, drill, widget, clicked, trigger >>

\* StoreUpload that keeps a dataset that is already loaded
StoreUpload_keep(ds, file) ==
  LET dataset_type == detect_dataset_type(file.name)
  IN  IF dataset_type # None
      THEN LET loaded == load_csv_file(file)
           IN  IF loaded.error # None \/ ds[dataset_type] # NoDf THEN ds
               ELSE [ds EXCEPT ![dataset_type] = loaded.df]
      ELSE ds

\* StoreUpload that files an unrecognised name under the last category
StoreUpload_default(ds, file) ==
  LET dataset_type == detect_dataset_type(file.name)
      loaded == load_csv_file(file)
  IN  IF loaded.error # None THEN ds
      ELSE [ds EXCEPT ![IF dataset_type # None THEN dataset_type ELSE "Proyectos"] = loaded.df]

\* app.py 79-90: one iteration of the upload loop
StoreUpload(ds, file) ==
  LET dataset_type == detect_dataset_type(file.name)
  IN  IF dataset_type # None
      THEN LET loaded == load_csv_file(file)
           IN  IF loaded.error # None THEN ds
               ELSE [ds EXCEPT ![dataset_type] = loaded.df]
      ELSE ds

\* app.py 79-90: what the iteration reports
UploadMessage(file) ==
  LET dataset_type == detect_dataset_type(file.name)
  IN  IF dataset_type # None
      THEN LET loaded == load_csv_file(file)
           IN  IF loaded.error # None
               THEN [kind |-> "error", name |-> file.name, text |-> loaded.error]
               ELSE [kind |-> "success", name |-> file.name, text |-> dataset_type]
      ELSE [kind |-> "warning", name |-> file.name, text |-> "Tipo no reconocido"]

\* app.py 79-82: the handle of the file after the iteration
HandleAfter(file, pos) ==
  IF detect_dataset_type(file.name) # None THEN load_csv_file(file).pos ELSE pos

ProcessUpload ==
  /\ pc = "upload"
  /\ fileIdx <= Len(uploaded_files)
  /\ datasets' = StoreUpload(datasets, Files[uploaded_files[fileIdx]])
  /\ messages' = Append(messages, UploadMessage(Files[uploaded_files[fileIdx]]))
  /\ handles' = [handles EXCEPT ![fileIdx] = HandleAfter(Files[uploaded_files[fileIdx]], @)]
  /\ fileIdx' = fileIdx + 1
  /\ UNCHANGED << fn_args, fn_result, uploaded_files, drill, widget, ids_this_run, clicked, pc,
                  trigger, outcome, siteTable >>

\* a clear-all that drops the mapping instead of emptying its entries
ClearedDatasets_dropped(ds) == [key \in {} |-> NoDf]

\* app.py 106-109: the clear-all button was clicked; st.rerun() ends the run
ClearedDatasets(ds) == [key \in DOMAIN ds |-> NoDf]

ClearAll ==
  /\ pc = "upload"
  /\ fileIdx > Len(uploaded_files)
  /\ clicked = "clear"
  /\ datasets' = ClearedDatasets(datasets)
  /\ widget' = CullWidgets(widget, ids_this_run \cup {"clear_button"})
  /\ ids_this_run' = ids_this_run \cup {"clear_button"}
  /\ clicked' = "none"
  /\ pc' = "init"
  /\ UNCHANGED << messages, handles, fn_args, fn_result, uploaded_files, drill, fileIdx, trigger, outcome, siteTable >>

\* app.py 97-103: the datasets the status panel of the sidebar shows as loaded
SidebarLoaded(session_datasets) ==
  { c \in DOMAIN session_datasets :
      get_dataset_info(session_datasets[c]).status = "Cargado" }

\* app.py 122-126: the datasets counted by the metric of the overview tab
OverviewCounted(session_datasets) ==
  { c \in DOMAIN session_datasets : session_datasets[c] # NoDf }

datasets_loaded(session_datasets) == Cardinality(OverviewCounted(session_datasets))

\* app.py 160-175: the datasets the grid of modules shows as loaded
GridLoaded(session_datasets) ==
  { c \in DOMAIN session_datasets : session_datasets[c] # NoDf }

\* app.py 94-175: status panel, clear-all button not clicked, overview tab
RenderOverview ==
  /\ pc = "upload"
  /\ fileIdx > Len(uploaded_files)
  /\ clicked # "clear"
  /\ ids_this_run' = ids_this_run \cup {"clear_button"}
  /\ pc' = "averias"
  /\ UNCHANGED << messages, handles, fn_args, fn_result, datasets, uploaded_files, drill, widget, clicked, fileIdx,
                  trigger, outcome, siteTable >>

\* app.py 180-189
\* app.py: the objects in st.session_state.datasets after the averias tab ran
AfterAverias(session_datasets, call) ==
  [session_datasets EXCEPT !["Averias"] = call.arg, !["Proyectos"] = call.arg2]

RenderAverias ==
  /\ pc = "averias"
  /\ datasets' = AfterAverias(datasets,
                              create_averias_dashboard(datasets["Averias"], datasets["Proyectos"]))
  /\ pc' = "desempeno"
  /\ UNCHANGED << messages, handles, fn_args, fn_result, uploaded_files, drill, widget, ids_this_run, clicked, fileIdx,
                  trigger, outcome, siteTable >>

RenderPerformance ==
  /\ pc = "desempeno"
  /\ datasets' = [datasets EXCEPT
                    !["Desempeño"] = create_performance_dashboard(datasets["Desempeño"]).arg]
  /\ pc' = "configuration"
  /\ UNCHANGED << messages, handles, fn_args, fn_result, uploaded_files, drill, widget, ids_this_run, clicked, fileIdx,
                  trigger, outcome, siteTable >>

RenderConfiguration ==
  /\ pc = "configuration"
  /\ datasets' = [datasets EXCEPT
                    !["Configuration"] = create_configuration_dashboard(datasets["Configuration"]).arg]
  /\ pc' = "provision"
  /\ UNCHANGED << messages, handles, fn_args, fn_result, uploaded_files, drill, widget, ids_this_run, clicked, fileIdx,
                  trigger, outcome, siteTable >>

\* an uncaught exception ends the run; widget state is kept as it is
Raise ==
  /\ pc' = "idle"
  /\ outcome' = "exception"
  /\ clicked' = "none"
  /\ trigger' = NoEvent

\* provision.py 12-107: early returns, formatting, creation of the drill state
ProvisionEnter ==
  /\ pc = "provision"
  /\ LET df_provision == datasets["Provision"]
     IN  IF df_provision = NoDf \/ Len(available_hierarchy(FormatProvision(df_provision))) < 2
         THEN pc' = "disponibilidad" /\ drill' = drill
         ELSE pc' = "prov_dept" /\ drill' = IF drill.created THEN drill ELSE DrillInit
  /\ UNCHANGED << messages, handles, fn_args, fn_result, datasets, uploaded_files, widget, ids_this_run, clicked, fileIdx,
                  trigger, outcome, siteTable >>

\* a selectbox of the drill-down is rendered and its value recorded
Selectbox(level, options) ==
  \E sel \in SelectboxReturn(widget[KeyOfLevel(level)], options) :
    /\ widget' = [widget EXCEPT ![KeyOfLevel(level)] =
                    [registered |-> TRUE, value |-> sel, options |-> options]]
    /\ ids_this_run' = ids_this_run \cup {KeyOfLevel(level)}
    /\ drill' = RecordSelection(drill, level, sel)

\* provision.py 118-173: level 1.  The chart needs the Departamento column of
\* dept_stats, which only the merge with the province counts (line 132) keeps.
ProvisionDepartamentos ==
  /\ pc = "prov_dept"
  /\ LET df_provision == FormatProvision(datasets["Provision"])
     IN  IF HasColumn(df_provision, "Departamento")
         THEN /\ Selectbox(1, << Placeholder >> \o Sorted(Unique(df_provision, "Departamento")))
              /\ IF HasColumn(df_provision, "Provincia")
                 THEN pc' = "prov_prov" /\ UNCHANGED << outcome, clicked, trigger >>
                 ELSE Raise
         ELSE /\ pc' = "prov_prov"
              /\ UNCHANGED << widget, ids_this_run, drill, outcome, clicked, trigger >>
  /\ UNCHANGED << messages, handles, fn_args, fn_result, datasets, uploaded_files, fileIdx, siteTable >>

\* provision.py 175-234: level 2
ProvisionProvincias ==
  /\ pc = "prov_prov"
  /\ LET df_provision == FormatProvision(datasets["Provision"])
         df_dept == FilterEq(df_provision, "Departamento", drill.selected_departamento)
     IN  IF ~Truthy(drill.selected_departamento)
         THEN /\ pc' = "prov_dist"
              /\ UNCHANGED << widget, ids_this_run, drill, outcome, clicked, trigger >>
         ELSE IF ~HasColumn(df_provision, "Departamento")
         THEN Raise /\ UNCHANGED << widget, ids_this_run, drill >>
         ELSE IF ~HasColumn(df_dept, "Provincia")
         THEN /\ pc' = "prov_dist"
              /\ UNCHANGED << widget, ids_this_run, drill, outcome, clicked, trigger >>
         ELSE /\ Selectbox(2, << Placeholder >> \o Sorted(Unique(df_dept, "Provincia")))
              /\ IF HasColumn(df_dept, "Distrito")
                 THEN pc' = "prov_dist" /\ UNCHANGED << outcome, clicked, trigger >>
                 ELSE Raise
  /\ UNCHANGED << messages, handles, fn_args, fn_result, datasets, uploaded_files, fileIdx, siteTable >>

\* provision.py 236-298: level 3
ProvisionDistritos ==
  /\ pc = "prov_dist"
  /\ LET df_provision == FormatProvision(datasets["Provision"])
         df_prov == FilterEq(FilterEq(df_provision, "Departamento", drill.selected_departamento),
                             "Provincia", drill.selected_provincia)
     IN  IF ~Truthy(drill.selected_provincia)
         THEN /\ pc' = "prov_table"
              /\ UNCHANGED << widget, ids_this_run, drill, outcome, clicked, trigger >>
         ELSE IF ~HasColumn(df_provision, "Departamento") \/ ~HasColumn(df_provision, "Provincia")
         THEN Raise /\ UNCHANGED << widget, ids_this_run, drill >>
         ELSE IF ~HasColumn(df_prov, "Distrito")
         THEN /\ pc' = "prov_table"
              /\ UNCHANGED << widget, ids_this_run, drill, outcome, clicked, trigger >>
         ELSE /\ Selectbox(3, << Placeholder >> \o Sorted(Unique(df_prov, "Distrito")))
              /\ IF HasColumn(df_prov, "Localidad")
                 THEN pc' = "prov_table" /\ UNCHANGED << outcome, clicked, trigger >>
                 ELSE Raise
  /\ UNCHANGED << messages, handles, fn_args, fn_result, datasets, uploaded_files, fileIdx, siteTable >>

\* SitesOfDistrict filtering on the district alone
SitesOfDistrict_leaf(df_provision, state) ==
  FilterEq(df_provision, "Distrito", state.selected_distrito)

\* provision.py 305-310
SitesOfDistrict(df_provision, state) ==
  FilterEq(FilterEq(FilterEq(df_provision,
                             "Departamento", state.selected_departamento),
                    "Provincia", state.selected_provincia),
           "Distrito", state.selected_distrito)

\* provision.py 300-320: level 4, the table of sites
ShowSiteTable(df_provision, state) ==
  IF Truthy(state.selected_distrito)
  THEN [shown |-> TRUE, rows |-> SitesOfDistrict(df_provision, state).rows]
  ELSE NotShown

ProvisionSites ==
  /\ pc = "prov_table"
  /\ LET df_provision == FormatProvision(datasets["Provision"])
     IN  IF /\ Truthy(drill.selected_distrito)
            /\ \E c \in {"Departamento", "Provincia", "Distrito"} : ~HasColumn(df_provision, c)
         THEN Raise /\ siteTable' = siteTable
         ELSE /\ siteTable' = ShowSiteTable(df_provision, drill)
              /\ pc' = "prov_restart"
              /\ UNCHANGED << outcome, clicked, trigger >>
  /\ UNCHANGED << messages, handles, fn_args, fn_result, datasets, uploaded_files, drill, widget, ids_this_run, fileIdx >>

\* provision.py 322-332: the restart button was clicked; st.rerun() ends the run
ProvisionRestart ==
  /\ pc = "prov_restart"
  /\ clicked = "restart"
  /\ drill' = DrillInit
  /\ ids_this_run' = ids_this_run \cup {"restart_button"}
  /\ widget' = CullWidgets(widget, ids_this_run)
  /\ clicked' = "none"
  /\ pc' = "init"
  /\ UNCHANGED << messages, handles, fn_args, fn_result, datasets, uploaded_files, fileIdx, trigger, outcome, siteTable >>

\* an export of the whole dataset, whatever is selected
ExportRows_all(df_provision, state) == df_provision.rows

\* provision.py 334-341: rows of the export
ExportRows(df_provision, state) ==
  LET d1 == IF Truthy(state.selected_departamento)
            THEN FilterEq(df_provision, "Departamento", state.selected_departamento)
            ELSE df_provision
      d2 == IF Truthy(state.selected_departamento) /\ Truthy(state.selected_provincia)
            THEN FilterEq(d1, "Provincia", state.selected_provincia)
            ELSE d1
      d3 == IF /\ Truthy(state.selected_departamento) /\ Truthy(state.selected_provincia)
               /\ Truthy(state.selected_distrito)
            THEN FilterEq(d2, "Distrito", state.selected_distrito)
            ELSE d2
  IN  d3.rows

ExportRaises(df_provision, state) ==
  /\ Truthy(state.selected_departamento)
  /\ \/ ~HasColumn(df_provision, "Departamento")
     \/ /\ Truthy(state.selected_provincia)
        /\ \/ ~HasColumn(df_provision, "Provincia")
           \/ Truthy(state.selected_distrito) /\ ~HasColumn(df_provision, "Distrito")

\* provision.py 344-350: the download name before the time stamp, as the base
\* name followed by the selection appended to it
download_name(state) ==
  IF Truthy(state.selected_distrito)
  THEN <<"provisionamiento", state.selected_distrito>>
  ELSE IF Truthy(state.selected_provincia)
  THEN <<"provisionamiento", state.selected_provincia>>
  ELSE IF Truthy(state.selected_departamento)
  THEN <<"provisionamiento", state.selected_departamento>>
  ELSE <<"provisionamiento">>

\* provision.py 322-358: restart button not clicked, download button
ProvisionExport ==
  /\ pc = "prov_restart"
  /\ clicked # "restart"
  /\ ids_this_run' = ids_this_run \cup {"restart_button"}
  /\ IF ExportRaises(FormatProvision(datasets["Provision"]), drill)
     THEN Raise
     ELSE pc' = "disponibilidad" /\ UNCHANGED << outcome, clicked, trigger >>
  /\ UNCHANGED << messages, handles, fn_args, fn_result, datasets, uploaded_files, drill, widget, fileIdx, siteTable >>

\* app.py 196-197
RenderAvailability ==
  /\ pc = "disponibilidad"
  /\ datasets' = [datasets EXCEPT
                    !["Disponibilidad"] = create_availability_dashboard(datasets["Disponibilidad"]).arg]
  /\ pc' = "calidad"
  /\ UNCHANGED << messages, handles, fn_args, fn_result, uploaded_files, drill, widget, ids_this_run, clicked, fileIdx,
                  trigger, outcome, siteTable >>

\* app.py 200-201 and the end of the run
RenderQuality ==
  /\ pc = "calidad"
  /\ datasets' = [datasets EXCEPT
                    !["Calidad"] = create_quality_dashboard(datasets["Calidad"]).arg]
  /\ widget' = CullWidgets(widget, ids_this_run)
  /\ outcome' = "ok"
  /\ clicked' = "none"
  /\ pc' = "idle"
  /\ trigger' = NoEvent
  /\ UNCHANGED << messages, handles, fn_args, fn_result, uploaded_files, drill, ids_this_run, fileIdx, siteTable >>

(***************************************************************************)
(* User events between runs                                                *)
(***************************************************************************)
UserEvent(ev, button) ==
  /\ pc = "idle"
  /\ trigger' = ev
  /\ clicked' = button
  /\ pc' = "init"
  /\ UNCHANGED << messages, handles, fn_args, fn_result, datasets, drill, ids_this_run, fileIdx, outcome, siteTable >>

AddFile ==
  \E f \in SessionFiles :
    /\ Len(uploaded_files) < MaxFiles
    /\ f \notin Range(uploaded_files)
    /\ uploaded_files' = Append(uploaded_files, f)
    /\ UserEvent(Event("upload", "-", "-"), "none")
    /\ UNCHANGED widget

RemoveFile ==
  \E i \in 1..Len(uploaded_files) :
    /\ uploaded_files' = RemoveAt(uploaded_files, i)
    /\ UserEvent(Event("upload", "-", "-"), "none")
    /\ UNCHANGED widget

ClickClearAll ==
  /\ "clear_button" \in ids_this_run
  /\ UserEvent(Event("clear", "-", "-"), "clear")
  /\ UNCHANGED << uploaded_files, widget >>

SelectOption ==
  \E k \in WidgetKeys \cap ids_this_run :
    \E v \in Range(widget[k].options) \ {widget[k].value} :
      /\ widget' = [widget EXCEPT ![k].value = v]
      /\ UserEvent(Event("select", k, v), "none")
      /\ UNCHANGED uploaded_files

ClickRestart ==
  /\ "restart_button" \in ids_this_run
  /\ UserEvent(Event("restart", "-", "-"), "restart")
  /\ UNCHANGED << uploaded_files, widget >>

\* the user changes the selection of the uploader (accept_multiple_files):
\* files that are misnamed, empty or wrongly encoded next to a good one
UploadFiles == {"fK", "fN", "fE", "fL", "fH"}

ChooseFiles ==
  \E files \in Arrangements(UploadFiles, MaxUploads) :
    /\ files # uploaded_files
    /\ \A i, j \in 1..Len(files) : files[i] = files[j] => i = j
    /\ uploaded_files' = files
    /\ UserEvent(Event("upload", "-", "-"), "none")
    /\ UNCHANGED widget

\* any interaction with a widget of another module
OtherInteraction ==
  /\ UserEvent(Event("other", "-", "-"), "none")
  /\ UNCHANGED << uploaded_files, widget >>

Next ==
  \/ StartRun
  \/ ProcessUpload
  \/ ClearAll
  \/ RenderOverview
  \/ RenderAverias
  \/ RenderPerformance
  \/ RenderConfiguration
  \/ ProvisionEnter
  \/ ProvisionDepartamentos
  \/ ProvisionProvincias
  \/ ProvisionDistritos
  \/ ProvisionSites
  \/ ProvisionRestart
  \/ ProvisionExport
  \/ RenderAvailability
  \/ RenderQuality
  \/ AddFile
  \/ RemoveFile
  \/ ClickClearAll
  \/ SelectOption
  \/ ClickRestart
  \/ OtherInteraction

Spec == Init /\ [][Next]_vars

\* the session of a user who only uploads files
NextUpload ==
  \/ StartRun
  \/ ProcessUpload
  \/ RenderOverview
  \/ RenderAverias
  \/ RenderPerformance
  \/ RenderConfiguration
  \/ ProvisionEnter
  \/ RenderAvailability
  \/ RenderQuality
  \/ ChooseFiles

SpecUpload == Init /\ [][NextUpload]_vars

(***************************************************************************)
(* modules/averias.py: what one render of the faults module shows.  w is   *)
(* what the widgets of the render return: the four geographic multiselects *)
(* (sets of values), the two date inputs and the multiselect of sites.     *)
(***************************************************************************)
geo_filter_columns == <<"Región", "Provincia", "Distrito", "Localidad">>

\* averias.py 172
GeoFiltersShown(df_proyectos) ==
  /\ df_proyectos # NoDf
  /\ \E i \in 1..Len(geo_filter_columns) : HasColumn(df_proyectos, geo_filter_columns[i])

\* the options of a multiselect: df[col].dropna().unique(); no widget and
\* the value None when the column is missing
Options(df, col) == IF HasColumn(df, col) THEN Unique(df, col) \ {NaN} ELSE {}

\* averias.py 181-213: what the four multiselects can return, each level
\* offering the values left by the levels above it
GeoSelections(df_proyectos) ==
  UNION { UNION { UNION {
    { [region |-> r, provincia |-> p, distrito |-> d, localidad |-> l] :
        l \in SUBSET Options(FilterLevel(FilterLevel(FilterLevel(df_proyectos,
                       "Región", r), "Provincia", p), "Distrito", d), "Localidad") } :
      d \in SUBSET Options(FilterLevel(FilterLevel(df_proyectos, "Región", r),
                                       "Provincia", p), "Distrito") } :
    p \in SUBSET Options(FilterLevel(df_proyectos, "Región", r), "Provincia") } :
  r \in SUBSET Options(df_proyectos, "Región") }

NoGeoSelection == [region |-> {}, provincia |-> {}, distrito |-> {}, localidad |-> {}]

AnySelected(w) ==
  w.region # {} \/ w.provincia # {} \/ w.distrito # {} \/ w.localidad # {}

\* averias.py 172-232
GeoFiltered(df_averias_processed, df_proyectos, w) ==
  IF GeoFiltersShown(df_proyectos) /\ AnySelected(w)
  THEN filter_averias_by_geography(df_averias_processed, df_proyectos,
                                   w.region, w.provincia, w.distrito, w.localidad)
  ELSE Returned_df(df_averias_processed)

\* df.drop_duplicates(subset=[col]): the first row of every value
RECURSIVE FirstOfEach(_, _)
FirstOfEach(rows, col) ==
  IF rows = << >> THEN << >>
  ELSE IF \E i \in 1..(Len(rows) - 1) : rows[i][col] = rows[Len(rows)][col]
       THEN FirstOfEach(SubSeq(rows, 1, Len(rows) - 1), col)
       ELSE Append(FirstOfEach(SubSeq(rows, 1, Len(rows) - 1), col), rows[Len(rows)])

\* averias.py 234-236
WithoutRepeatedAlarms(df_filtrado) ==
  IF HasColumn(df_filtrado, "alarm_id")
  THEN [cols |-> df_filtrado.cols, rows |-> FirstOfEach(df_filtrado.rows, "alarm_id")]
  ELSE df_filtrado

\* df[df["alarm_status"] == "active"]
Active == Str(<<"a","c","t","i","v","e">>)
ActiveRows(df) ==
  IF HasColumn(df, "alarm_status") THEN FilterIsin(df, "alarm_status", {Active}).rows ELSE << >>

\* df.dropna(subset=["duration_minutes"])
Resolved(df) ==
  SeqFilter(df.rows, { row \in Range(df.rows) : row["duration_minutes"] # NaN })

\* the number of rows of a site
CountOfSite(rows, site_col, site) ==
  Cardinality({ i \in 1..Len(rows) : rows[i][site_col] = site })

\* some site has at least n of the rows
SitesWith(rows, site_col, n) ==
  \E i \in 1..Len(rows) :
    rows[i][site_col] # NaN /\ CountOfSite(rows, site_col, rows[i][site_col]) >= n

\* averias.py 296-301: the active faults that count for a site, those whose
\* tiempo_abierto_horas (now - start_time) is not missing
OpenKnown(df_filtrado) ==
  SeqFilter(ActiveRows(df_filtrado),
            { row \in Range(ActiveRows(df_filtrado)) : row["start_time"].kind = "ts" })

\* averias.py 289-301: the chart of the time open is reached and has a site
TiempoAbiertoReached(df_filtrado) ==
  /\ HasColumn(df_filtrado, "alarm_status")
  /\ ActiveRows(df_filtrado) # << >>
  /\ HasColumn(df_filtrado, "start_time")

\* averias.py 250-416: the charts of the filtered faults
ResolutionCharts(df_filtrado, site_col) ==
  IF HasColumn(df_filtrado, "duration_minutes") /\ site_col # None
  THEN (IF SitesWith(Resolved(df_filtrado), site_col, 3) THEN {"top_slow"} ELSE {})
       \cup (IF /\ Resolved(df_filtrado) # << >>
                /\ TiempoAbiertoReached(df_filtrado)
                /\ SitesWith(OpenKnown(df_filtrado), site_col, 1)
             THEN {"tiempo_abierto"} ELSE {})
       \cup (IF SitesWith(Resolved(df_filtrado), site_col, 5) THEN {"histogram"} ELSE {})
  ELSE {}

\* averias.py 250-324: what the second ranking column says instead of its chart
ResolutionMessages(df_filtrado, site_col) ==
  IF /\ HasColumn(df_filtrado, "duration_minutes") /\ site_col # None
     /\ Resolved(df_filtrado) # << >>
  THEN IF ~HasColumn(df_filtrado, "alarm_status")
       THEN {"No se encontró la columna 'alarm_status'"}
       ELSE IF ~TiempoAbiertoReached(df_filtrado)
       THEN {"No hay averías activas o faltan datos de tiempo"}
       ELSE IF ~SitesWith(OpenKnown(df_filtrado), site_col, 1)
       THEN {"No hay suficientes averías activas para mostrar"}
       ELSE {}
  ELSE {}

TopSitesCharts(df_filtrado, site_col) ==
  IF site_col # None
  THEN (IF SitesWith(df_filtrado.rows, site_col, 1) THEN {"top_sites_total"} ELSE {})
       \cup (IF SitesWith(ActiveRows(df_filtrado), site_col, 1)
             THEN {"top_sites_activas"} ELSE {})
  ELSE {}

TemporalCharts(df_filtrado, start_time_date_conversion_success) ==
  IF start_time_date_conversion_success
  THEN (IF HasColumn(df_filtrado, "hour") THEN {"hourly"} ELSE {})
       \cup (IF HasColumn(df_filtrado, "day_of_week") THEN {"daily"} ELSE {})
  ELSE {}

coord_cols_options ==
  << <<"Latitud (WGS 84)", "Longitud (WGS 84)">>, <<"Latitud", "Longitud">>, <<"lat", "lon">> >>

\* averias.py 444-460: the map is attempted
MapAttempted(df_filtrado, df_proyectos) ==
  /\ df_proyectos # NoDf
  /\ Len(df_filtrado.rows) > 0
  /\ ActiveRows(df_filtrado) # << >>
  /\ find_site_column(df_filtrado) # None
  /\ \E i \in 1..Len(coord_cols_options) :
       HasColumn(df_proyectos, coord_cols_options[i][1])
         /\ HasColumn(df_proyectos, coord_cols_options[i][2])

coord_cols(df_proyectos) ==
  coord_cols_options[CHOOSE i \in 1..Len(coord_cols_options) :
    /\ HasColumn(df_proyectos, coord_cols_options[i][1])
    /\ HasColumn(df_proyectos, coord_cols_options[i][2])
    /\ \A j \in 1..(i - 1) : ~(HasColumn(df_proyectos, coord_cols_options[j][1])
                                 /\ HasColumn(df_proyectos, coord_cols_options[j][2]))]

\* averias.py 463-474: the projects of the sites with active faults whose
\* coordinates are numbers
proyectos_mapa(df_filtrado, df_proyectos) ==
  SeqFilter(df_proyectos.rows,
            { row \in Range(df_proyectos.rows) :
                /\ \E i \in 1..Len(ActiveRows(df_filtrado)) :
                     ActiveRows(df_filtrado)[i][find_site_column(df_filtrado)] = row["SITE_NAME"]
                /\ to_numeric(row[coord_cols(df_proyectos)[1]]) # NaN
                /\ to_numeric(row[coord_cols(df_proyectos)[2]]) # NaN })

MapCharts(df_filtrado, df_proyectos) ==
  IF MapAttempted(df_filtrado, df_proyectos)
       /\ proyectos_mapa(df_filtrado, df_proyectos) # << >>
  THEN {"map"} ELSE {}

\* a calendar date
Date(y, m, d) == [year |-> y, month |-> m, day |-> d]
DateOf(ts) == Date(ts.year, ts.month, ts.day)
DateOrdinal(date) == DaysFromCivil(date.year, date.month, date.day)

\* the dates of the rows whose start_time is a timestamp
RowDates(df) ==
  { DateOf(df.rows[r]["start_time"]) :
      r \in { k \in 1..Len(df.rows) : df.rows[k]["start_time"].kind = "ts" } }

\* averias.py 615: the date filter is offered
DateFilterOffered(df_filtrado, start_time_date_conversion_success) ==
  HasColumn(df_filtrado, "start_time") /\ start_time_date_conversion_success

\* averias.py 639-645
FilterDates(df, fecha_inicio, fecha_fin) ==
  [cols |-> df.cols,
   rows |-> SeqFilter(df.rows,
              { row \in Range(df.rows) :
                  /\ row["start_time"].kind = "ts"
                  /\ DateOrdinal(DateOf(row["start_time"])) >= DateOrdinal(fecha_inicio)
                  /\ DateOrdinal(DateOf(row["start_time"])) <= DateOrdinal(fecha_fin) })]

\* averias.py 615-663
DateFiltered(df_filtrado, start_time_date_conversion_success, w) ==
  IF /\ DateFilterOffered(df_filtrado, start_time_date_conversion_success)
     /\ DateOrdinal(w.fecha_inicio) <= DateOrdinal(w.fecha_fin)
  THEN FilterDates(df_filtrado, w.fecha_inicio, w.fecha_fin)
  ELSE df_filtrado

\* averias.py 667-671: sorted(df[site_col].dropna().unique()) as a set
sites_disponibles(df_temp_filtros) ==
  IF find_site_column(df_temp_filtros) = None THEN {}
  ELSE Unique(df_temp_filtros, find_site_column(df_temp_filtros)) \ {NaN}

\* averias.py 666-708 without the site filter
SiteFiltered_all(df_temp_filtros, sites_seleccionados) == df_temp_filtros

\* averias.py 666-708: the filter of the table by site
SiteFiltered(df_temp_filtros, sites_seleccionados) ==
  IF sites_disponibles(df_temp_filtros) # {} /\ sites_seleccionados # {}
  THEN FilterIsin(df_temp_filtros, find_site_column(df_temp_filtros), sites_seleccionados)
  ELSE df_temp_filtros

\* averias.py 615-712: the messages of the two filters of the table
TableMessages(df_filtrado, df_temp_filtros, start_time_date_conversion_success, w) ==
  (IF ~DateFilterOffered(df_filtrado, start_time_date_conversion_success)
   THEN {"No hay datos de fecha válidos para aplicar filtro temporal"}
   ELSE IF DateOrdinal(w.fecha_inicio) > DateOrdinal(w.fecha_fin)
   THEN {"La fecha de inicio debe ser menor o igual a la fecha de fin"} ELSE {})
  \cup
  (IF find_site_column(df_temp_filtros) = None
   THEN {"No se encontró columna de sites para filtrar"}
   ELSE IF sites_disponibles(df_temp_filtros) = {}
   THEN {"No hay sites disponibles en el rango de fechas seleccionado"} ELSE {})

\* a render that an uncaught exception cut short
Raised(where) ==
  [outcome |-> "exception", where |-> where, messages |-> {}, charts |-> {},
   table |-> NotShown, filtered |-> << >>]

\* a render that ran to its end
Rendered(shown_messages, charts, table, filtered) ==
  [outcome |-> "ok", where |-> "-", messages |-> shown_messages, charts |-> charts,
   table |-> table, filtered |-> filtered]

\* [col for col in essential_columns if col in df.columns], or every column
\* when "Mostrar todas las columnas" is ticked
DisplayColumns(df, essential_columns, show_all_columns) ==
  IF show_all_columns THEN df.cols ELSE SeqFilter(essential_columns, Range(df.cols))

\* essential_columns.append(site_col) when there is a site column
SiteColumn(df) ==
  IF find_site_column(df) # None THEN << find_site_column(df) >> ELSE << >>

\* st.dataframe(df[display_columns].head(max_rows)): the slider gives at
\* least 10 rows, more than a modelled table has
Displayed(df, display_columns) ==
  [shown |-> TRUE, cols |-> display_columns,
   rows |-> SelectColumns(df, display_columns).rows]

\* averias.py 735-743
AveriasDisplayColumns(df_tabla, show_all_columns) ==
  DisplayColumns(df_tabla,
                 <<"start_time", "end_time", "duration_minutes">> \o SiteColumn(df_tabla)
                   \o <<"cell_name", "alarm_id", "alarm_name", "alarm_status">>,
                 show_all_columns)

\* averias.py 689-695: the buttons "Seleccionar todos" and "Limpiar selección"
\* by their keys; they are drawn next to the multiselect of sites
SiteButtons == {"select_all_sites", "clear_sites"}
NoButton == "-"
ButtonClicked(df_temp_filtros, w) ==
  sites_disponibles(df_temp_filtros) # {} /\ w.button \in SiteButtons

\* averias.py 609-746: the table of faults.  A clicked button writes
\* st.session_state["averias_sites_filter"] after the multiselect with that
\* key was drawn, which Streamlit refuses with an exception (690, 694): the
\* run ends before the table.
TableStage(df_filtrado, df_temp_filtros, charts, success, w) ==
  IF ButtonClicked(df_temp_filtros, w) THEN Raised(w.button)
  ELSE Rendered(ResolutionMessages(df_filtrado, find_site_column(df_filtrado))
                  \cup TableMessages(df_filtrado, df_temp_filtros, success, w),
                charts,
                Displayed(SiteFiltered(df_temp_filtros, w.sites),
                          AveriasDisplayColumns(SiteFiltered(df_temp_filtros, w.sites),
                                                w.show_all_columns)),
                SiteFiltered(df_temp_filtros, w.sites).rows)

\* averias.py 256-746: charts, map and table of the filtered faults.
\* min().date() of a column without a timestamp raises (617).
FilteredStage(df_filtrado, df_proyectos, success, w) ==
  IF MapAttempted(df_filtrado, df_proyectos) /\ ~HasColumn(df_proyectos, "SITE_NAME")
  THEN Raised("map")
  ELSE IF DateFilterOffered(df_filtrado, success) /\ RowDates(df_filtrado) = {}
  THEN Raised("date filter")
  ELSE TableStage(df_filtrado, DateFiltered(df_filtrado, success, w),
                  ResolutionCharts(df_filtrado, find_site_column(df_filtrado))
                    \cup TopSitesCharts(df_filtrado, find_site_column(df_filtrado))
                    \cup TemporalCharts(df_filtrado, success)
                    \cup MapCharts(df_filtrado, df_proyectos),
                  success, w)

\* averias.py 172-236
GeoStage(geo, df_proyectos, success, w) ==
  IF geo.raised THEN Raised("geography")
  ELSE FilteredStage(WithoutRepeatedAlarms(geo.df), df_proyectos, success, w)

\* averias.py 72-775: one render of the module
averias_view(df_averias, df_proyectos, w) ==
  IF df_averias = NoDf
  THEN Rendered({"No se ha cargado el archivo de Averías"}, {}, NotShown, << >>)
  ELSE GeoStage(GeoFiltered(create_averias_dashboard(df_averias, df_proyectos).processed,
                            df_proyectos, w),
                df_proyectos,
                parse_datetime_column(FormatAverias(LowerColumns(df_averias)), "start_time", TRUE).success,
                w)

(***************************************************************************)
(* modules/desempeño.py, calidad.py, disponibilidad.py: what one render    *)
(* shows.  w is what the widgets return: the multiselect of sites, the     *)
(* multiselect of metrics and the range of dates (days since 1970-01-01).  *)
(***************************************************************************)
NotLoaded == "No se ha cargado el archivo"
NoMatch == "No hay datos que coincidan con los filtros seleccionados"
NoSiteColumn == "No se encontró columna de sites"
NoValidDates == "No se pueden crear gráficos temporales sin fechas válidas"
SelectSites == "Selecciona uno o más sites para ver el análisis"
SelectSitesAvailability == "Selecciona uno o más sites para ver el gráfico de disponibilidad"
SelectMetrics == "Selecciona una o más métricas para visualizar"
NoAvailabilityData == "No hay datos de disponibilidad para mostrar"

\* sorted(df[site_col].unique()): a missing value cannot be compared with a text
SortRaises(df_clean) ==
  /\ find_site_column(df_clean) # None
  /\ NaN \in Unique(df_clean, find_site_column(df_clean))
  /\ Cardinality(Unique(df_clean, find_site_column(df_clean))) > 1

\* the options of the multiselect of sites
all_sites(df_clean) ==
  IF find_site_column(df_clean) = None THEN {}
  ELSE Unique(df_clean, find_site_column(df_clean))

\* [col for col in numeric_columns if col in df_clean.columns]
available_metrics(df_clean, numeric_columns) == SeqFilter(numeric_columns, Range(df_clean.cols))

\* df_clean["start_time"].min().date() and .max().date()
min_date(df_clean) ==
  CHOOSE d \in { DateOrdinal(x) : x \in RowDates(df_clean) } :
    \A e \in { DateOrdinal(x) : x \in RowDates(df_clean) } : d <= e
max_date(df_clean) ==
  CHOOSE d \in { DateOrdinal(x) : x \in RowDates(df_clean) } :
    \A e \in { DateOrdinal(x) : x \in RowDates(df_clean) } : d >= e

\* desempeño.py 113-144: the start and end date that the selectbox of ranges
\* and the two date inputs of "Personalizado" can give
TimeRanges(first, last) ==
  { <<first, last>>, <<last, last>>, <<last - 2, last>>, <<last - 6, last>> }
    \cup { <<a, b>> : a \in first..last, b \in first..last }

NoRange == <<0, 0>>

\* desempeño.py 150-151
SitesFilter(df, selected_sites) ==
  IF selected_sites # {} /\ find_site_column(df) # None
  THEN FilterIsin(df, find_site_column(df), selected_sites)
  ELSE df

\* desempeño.py 154-156
RangeFilter(df, date_conversion_success, range) ==
  IF date_conversion_success
  THEN [cols |-> df.cols,
        rows |-> SeqFilter(df.rows,
                   { row \in Range(df.rows) :
                       /\ row["start_time"].kind = "ts"
                       /\ DateOrdinal(DateOf(row["start_time"])) >= range[1]
                       /\ DateOrdinal(DateOf(row["start_time"])) <= range[2] })]
  ELSE df

\* ', '.join(selected_sites) in the title of the timeline, for at most three
\* selected sites: a missing value is a float, which join refuses
TitleRaises(selected_sites) ==
  Cardinality(selected_sites) <= 3 /\ NaN \in selected_sites

SiteMessages(df_clean) ==
  IF find_site_column(df_clean) = None THEN {NoSiteColumn} ELSE {}

\* charts of the performance module that wait for a selected site, as the
\* quality module's do
PerformanceCharts_sites(df_filtered, success, w) ==
  (IF w.metrics # {} /\ w.sites # {} /\ success THEN {"timeline", "hourly"} ELSE {})
  \cup (IF Cardinality(w.sites) > 1 /\ w.metrics # {} /\ find_site_column(df_filtered) # None
        THEN {"comparison"} ELSE {})

\* desempeño.py 184-287: the layout of the timeline is reached
PerformanceTimeline(success, w) == w.metrics # {} /\ success

\* desempeño.py 184-362: the charts, which do not ask for a site; none is
\* drawn once the title of the timeline raises (287)
PerformanceCharts(df_filtered, success, w) ==
  IF PerformanceTimeline(success, w) /\ TitleRaises(w.sites) THEN {}
  ELSE (IF w.metrics # {} /\ success THEN {"timeline", "hourly"} ELSE {})
       \cup (IF /\ Cardinality(w.sites) > 1 /\ w.metrics # {}
                /\ find_site_column(df_filtered) # None
             THEN {"comparison"} ELSE {})

PerformanceMessages(df_filtered, success, w) ==
  SiteMessages(df_filtered) \cup (IF w.metrics # {} /\ ~success THEN {NoValidDates} ELSE {})

\* desempeño.py 399-407: selected_metrics in the order of the options
PerformanceDisplayColumns(df_filtered, selected_metrics, show_all_columns) ==
  DisplayColumns(df_filtered,
                 <<"start_time", "end_time">> \o SiteColumn(df_filtered)
                   \o SeqFilter(performance_numeric_columns, selected_metrics),
                 show_all_columns)

\* desempeño.py 158-420
PerformanceStage(df_filtered, success, w) ==
  IF Len(df_filtered.rows) = 0
  THEN Rendered(SiteMessages(df_filtered) \cup {NoMatch}, {}, NotShown, << >>)
  ELSE IF PerformanceTimeline(success, w) /\ TitleRaises(w.sites) THEN Raised("title")
  ELSE Rendered(PerformanceMessages(df_filtered, success, w),
                PerformanceCharts(df_filtered, success, w),
                Displayed(df_filtered,
                          PerformanceDisplayColumns(df_filtered, w.metrics,
                                                    w.show_all_columns)),
                df_filtered.rows)

\* desempeño.py 27-156
PerformanceClean(df_clean, success, w) ==
  IF SortRaises(df_clean) THEN Raised("sorted")
  ELSE PerformanceStage(RangeFilter(SitesFilter(df_clean, w.sites), success, w.range),
                        success, w)

\* desempeño.py 8-420: one render of the module
performance_view(df_performance, w) ==
  IF df_performance = NoDf THEN Rendered({NotLoaded}, {}, NotShown, << >>)
  ELSE PerformanceClean(
         create_performance_dashboard(df_performance).processed,
         parse_datetime_column(
           clean_numeric_data(df_performance, performance_numeric_columns).result,
           "start_time", TRUE).success,
         w)

\* calidad.py 198-310: the layout of the timeline is reached
QualityTimeline(success, w) == w.metrics # {} /\ w.sites # {} /\ success

\* calidad.py 198-392: every chart asks for a selected site; none is drawn
\* once the title of the timeline raises (310)
QualityCharts(df_filtered, success, w) ==
  IF QualityTimeline(success, w) /\ TitleRaises(w.sites) THEN {}
  ELSE (IF w.metrics # {} /\ w.sites # {} /\ success THEN {"timeline", "hourly"} ELSE {})
       \cup (IF /\ Cardinality(w.sites) > 1 /\ w.metrics # {}
                /\ find_site_column(df_filtered) # None
             THEN {"comparison"} ELSE {})

QualityMessages(df_filtered, success, w) ==
  SiteMessages(df_filtered)
  \cup (IF w.metrics # {} /\ w.sites # {}
        THEN (IF success THEN {} ELSE {NoValidDates})
        ELSE IF w.sites = {} THEN {SelectSites}
        ELSE {SelectMetrics})

\* calidad.py 433-441: selected_metrics in the order of the options
QualityDisplayColumns(df_filtered, selected_metrics, show_all_columns) ==
  DisplayColumns(df_filtered,
                 <<"start_time">> \o SiteColumn(df_filtered)
                   \o SeqFilter(quality_numeric_columns, selected_metrics),
                 show_all_columns)

\* calidad.py 170-454
QualityStage(df_filtered, success, w) ==
  IF Len(df_filtered.rows) = 0
  THEN Rendered(SiteMessages(df_filtered) \cup {NoMatch}, {}, NotShown, << >>)
  ELSE IF QualityTimeline(success, w) /\ TitleRaises(w.sites) THEN Raised("title")
  ELSE Rendered(QualityMessages(df_filtered, success, w),
                QualityCharts(df_filtered, success, w),
                Displayed(df_filtered,
                          QualityDisplayColumns(df_filtered, w.metrics, w.show_all_columns)),
                df_filtered.rows)

\* calidad.py 28-168
QualityClean(df_clean, success, w) ==
  IF SortRaises(df_clean) THEN Raised("sorted")
  ELSE QualityStage(RangeFilter(SitesFilter(df_clean, w.sites), success, w.range),
                    success, w)

\* calidad.py 8-454: one render of the module
quality_view(df_quality, w) ==
  IF df_quality = NoDf THEN Rendered({NotLoaded}, {}, NotShown, << >>)
  ELSE QualityClean(
         create_quality_dashboard(df_quality).processed,
         parse_datetime_column(
           clean_numeric_data(df_quality, quality_numeric_columns).result,
           "start_time", TRUE).success,
         w)

\* disponibilidad.py 108-151: the layout of the timeline is reached
AvailabilityTimeline(df_filtered, success, w) ==
  HasColumn(df_filtered, "cell_serv_time") /\ w.sites # {} /\ success

\* disponibilidad.py 108-209: every chart asks for a selected site; none is
\* drawn once the title of the timeline raises (151)
AvailabilityCharts(df_filtered, success, w) ==
  IF AvailabilityTimeline(df_filtered, success, w) /\ ~TitleRaises(w.sites)
  THEN {"timeline", "hourly"} ELSE {}

AvailabilityMessages(df_filtered, success, w) ==
  SiteMessages(df_filtered)
  \cup (IF HasColumn(df_filtered, "cell_serv_time") /\ w.sites # {}
        THEN (IF success THEN {} ELSE {NoValidDates})
        ELSE IF w.sites = {} THEN {SelectSitesAvailability}
        ELSE {NoAvailabilityData})

\* disponibilidad.py 257-265
AvailabilityDisplayColumns(df_filtered, show_all_columns) ==
  DisplayColumns(df_filtered,
                 <<"start_time">> \o SiteColumn(df_filtered) \o <<"cell_serv_time">>,
                 show_all_columns)

\* disponibilidad.py 88-278
AvailabilityStage(df_filtered, success, w) ==
  IF Len(df_filtered.rows) = 0
  THEN Rendered(SiteMessages(df_filtered) \cup {NoMatch}, {}, NotShown, << >>)
  ELSE IF AvailabilityTimeline(df_filtered, success, w) /\ TitleRaises(w.sites)
  THEN Raised("title")
  ELSE Rendered(AvailabilityMessages(df_filtered, success, w),
                AvailabilityCharts(df_filtered, success, w),
                Displayed(df_filtered,
                          AvailabilityDisplayColumns(df_filtered, w.show_all_columns)),
                df_filtered.rows)

\* disponibilidad.py 22-86: the module has no filter of dates
AvailabilityClean(df_clean, success, w) ==
  IF SortRaises(df_clean) THEN Raised("sorted")
  ELSE AvailabilityStage(SitesFilter(df_clean, w.sites), success, w)

\* disponibilidad.py 8-278: one render of the module
availability_view(df_availability, w) ==
  IF df_availability = NoDf THEN Rendered({NotLoaded}, {}, NotShown, << >>)
  ELSE AvailabilityClean(
         create_availability_dashboard(df_availability).processed,
         parse_datetime_column(
           clean_numeric_data(df_availability, availability_numeric_columns).result,
           "start_time", TRUE).success,
         w)

(***************************************************************************)
(* The helper functions applied on their own: Init draws the function and  *)
(* its arguments, an action applies it.                                    *)
(***************************************************************************)
\* file names: two words around "_", as written or in capitals; a word is a
\* keyword, a keyword cut short, or nothing
NameWords ==
  UNION { Range(detection_rules[i].keywords) : i \in 1..Len(detection_rules) }
    \cup { << >>, <<"x">>, <<"p","r","o","v","i","s">>, <<"k","p">>,
           <<"s","i","t">>, <<"a","v","a","i","l">> }

FileNames ==
  LET written == { a \o <<"_">> \o b \o <<".","c","s","v">> : a \in NameWords, b \in NameWords }
  IN  written \cup { Upper(n) : n \in written }

DetectCalls == { [fn |-> "detect_dataset_type", filename |-> n] : n \in FileNames }

\* numeric cells: every text of at most NumLen of these characters, the
\* documented examples, and a missing cell
NumChars == {"1", "5", ",", ".", " ", "a", "\""}

ExampleNumbers ==
  { <<"2","3",",","4","1","8",".","0","8","2">>, <<"1","2","3",",","4","5">>,
    <<"1",",","2","3","4">>, <<"n","a","n">>, <<"1",",","2","3","4",",","5","6","7">> }

NumericCells ==
  { Str(t) : t \in Arrangements(NumChars, NumLen) \cup ExampleNumbers } \cup { NaN }

CleanNumberCalls == { [fn |-> "clean_european_number", value |-> v] : v \in NumericCells }

\* tables of two rows with a numeric column, or without it
NumericColumnCells ==
  { Str(<<"1",",","5">>), Str(<<"1",",","2","3","4",".","5">>), Str(<<"7">>),
    Str(<<"a","b","c">>), Str(<<"1","a">>), NaN }

NumericTable(a, b) ==
  [cols |-> <<"site", "latency">>,
   rows |-> << [site |-> "S1", latency |-> a], [site |-> "S2", latency |-> b] >>]

NumericTables ==
  { NumericTable(a, b) : a \in NumericColumnCells, b \in NumericColumnCells }
    \cup { [cols |-> <<"site">>, rows |-> << [site |-> "S1"], [site |-> "S2"] >>] }

CleanNumericCalls ==
  { [fn |-> "clean_numeric_data", df |-> t, columns |-> <<"latency", "voice_traffic">>] :
      t \in NumericTables }

\* tables of two rows with a start_time and an end_time column, or one of them
DateColumnCells ==
  { Str(<<"A","u","g"," ","1","8",","," ","2","0","2","5"," ","@"," ","0","6",":","0","0",":","0","0",".","0","0","0">>),
    Str(<<"A","u","g"," ","1","8",","," ","2","0","2","5"," ","0","6",":","3","0",":","0","0">>),
    Str(<<"F","e","b"," ","3","0",","," ","2","0","2","5"," ","0","6",":","0","0",":","0","0">>),
    Str(<<"s","o","o","n">>), NaN }

TimeRow(cols, site, start, end) ==
  [c \in Range(cols) |->
     CASE c = "site" -> site [] c = "start_time" -> start [] c = "end_time" -> end]

TimeTablesOf(cols) ==
  { [cols |-> cols, rows |-> << TimeRow(cols, "S1", s1, e1), TimeRow(cols, "S2", s2, e2) >>] :
      s1 \in DateColumnCells, e1 \in DateColumnCells,
      s2 \in DateColumnCells, e2 \in DateColumnCells }

TimeTables ==
  TimeTablesOf(<<"site", "start_time", "end_time">>)
    \cup TimeTablesOf(<<"site", "start_time">>) \cup TimeTablesOf(<<"site", "end_time">>)

ParseCalls ==
  { [fn |-> "parse_datetime_column", df |-> t, column_name |-> c, create_derived_fields |-> d] :
      t \in TimeTables, c \in {"start_time", "end_time"}, d \in BOOLEAN }

\* desempeño.py 31-32, averias.py 105-106: start_time, then end_time
StartEndCalls == { [fn |-> "parse_start_then_end", df |-> t] : t \in TimeTables }

HelperCalls ==
  DetectCalls \cup CleanNumberCalls \cup CleanNumericCalls \cup ParseCalls \cup StartEndCalls

Returned(value) == [value |-> value]

ApplyDetect ==
  /\ fn_args.fn = "detect_dataset_type"
  /\ fn_result = Pending
  /\ fn_result' = Returned(detect_dataset_type(fn_args.filename))
  /\ UNCHANGED << datasets, uploaded_files, drill, widget, ids_this_run, clicked, pc,
                  fileIdx, trigger, outcome, siteTable, messages, handles, fn_args >>

\* helpers.py 87-88 on one cell: the cleaned text, then the number
ApplyCleanNumber ==
  /\ fn_args.fn = "clean_european_number"
  /\ fn_result = Pending
  /\ fn_result' = [value |-> clean_european_number(fn_args.value),
                   numeric |-> to_numeric(clean_european_number(fn_args.value))]
  /\ UNCHANGED << datasets, uploaded_files, drill, widget, ids_this_run, clicked, pc,
                  fileIdx, trigger, outcome, siteTable, messages, handles, fn_args >>

\* clean_numeric_data applied to a table, and then to its own result
ApplyCleanNumeric ==
  /\ fn_args.fn = "clean_numeric_data"
  /\ fn_result = Pending
  /\ LET call == clean_numeric_data(fn_args.df, fn_args.columns)
     IN  fn_result' = [applied |-> 1, arg |-> call.arg, result |-> call.result]
  /\ UNCHANGED << datasets, uploaded_files, drill, widget, ids_this_run, clicked, pc,
                  fileIdx, trigger, outcome, siteTable, messages, handles, fn_args >>

ApplyCleanNumericAgain ==
  /\ fn_args.fn = "clean_numeric_data"
  /\ fn_result # Pending /\ fn_result.applied = 1
  /\ LET call == clean_numeric_data(fn_result.result, fn_args.columns)
     IN  fn_result' = [applied |-> 2, arg |-> call.arg, result |-> call.result]
  /\ UNCHANGED << datasets, uploaded_files, drill, widget, ids_this_run, clicked, pc,
                  fileIdx, trigger, outcome, siteTable, messages, handles, fn_args >>

\* parse_datetime_column applied to a table, and then to its own result
ApplyParse ==
  /\ fn_args.fn = "parse_datetime_column"
  /\ fn_result = Pending
  /\ LET call == parse_datetime_column(fn_args.df, fn_args.column_name,
                                       fn_args.create_derived_fields)
     IN  fn_result' = [applied |-> 1, arg |-> call.arg, result |-> call.result,
                       success |-> call.success]
  /\ UNCHANGED << datasets, uploaded_files, drill, widget, ids_this_run, clicked, pc,
                  fileIdx, trigger, outcome, siteTable, messages, handles, fn_args >>

ApplyParseAgain ==
  /\ fn_args.fn = "parse_datetime_column"
  /\ fn_result # Pending /\ fn_result.applied = 1
  /\ LET call == parse_datetime_column(fn_result.result, fn_args.column_name,
                                       fn_args.create_derived_fields)
     IN  fn_result' = [applied |-> 2, arg |-> call.arg, result |-> call.result,
                       success |-> call.success, first_success |-> fn_result.success]
  /\ UNCHANGED << datasets, uploaded_files, drill, widget, ids_this_run, clicked, pc,
                  fileIdx, trigger, outcome, siteTable, messages, handles, fn_args >>

\* desempeño.py 31, averias.py 105
ParseStartTime ==
  /\ fn_args.fn = "parse_start_then_end"
  /\ fn_result = Pending
  /\ LET call == parse_datetime_column(fn_args.df, "start_time", TRUE)
     IN  fn_result' = [stage |-> "start", result |-> call.result,
                       start_success |-> call.success]
  /\ UNCHANGED << datasets, uploaded_files, drill, widget, ids_this_run, clicked, pc,
                  fileIdx, trigger, outcome, siteTable, messages, handles, fn_args >>

\* desempeño.py 32, averias.py 106
ParseEndTime ==
  /\ fn_args.fn = "parse_start_then_end"
  /\ fn_result # Pending /\ fn_result.stage = "start"
  /\ LET call == parse_datetime_column(fn_result.result, "end_time", FALSE)
     IN  fn_result' = [stage |-> "end", result |-> call.result,
                       start_success |-> fn_result.start_success,
                       end_success |-> call.success]
  /\ UNCHANGED << datasets, uploaded_files, drill, widget, ids_this_run, clicked, pc,
                  fileIdx, trigger, outcome, siteTable, messages, handles, fn_args >>

InitHelpers ==
  /\ SessionInit
  /\ fn_args \in HelperCalls
  /\ fn_result = Pending

NextHelpers ==
  \/ ApplyDetect
  \/ ApplyCleanNumber
  \/ ApplyCleanNumeric
  \/ ApplyCleanNumericAgain
  \/ ApplyParse
  \/ ApplyParseAgain
  \/ ParseStartTime
  \/ ParseEndTime

SpecHelpers == InitHelpers /\ [][NextHelpers]_vars

TypeOK ==
  /\ pc \in {"init", "upload", "averias", "desempeno", "configuration", "provision",
             "prov_dept", "prov_prov", "prov_dist", "prov_table", "prov_restart",
             "disponibilidad", "calidad", "idle"}
  /\ DOMAIN datasets \in {{}, Categories}

(***************************************************************************)
(* The renders of the filtering modules on their own: Init draws the       *)
(* datasets handed to a renderer, an action draws what its widgets return  *)
(* and applies it.                                                         *)
(***************************************************************************)
Site1 == Str(<<"S","1">>)
Site2 == Str(<<"S","2">>)
Region1 == Str(<<"R","1">>)
Region2 == Str(<<"R","2">>)
Province1 == Str(<<"P","1">>)
Province2 == Str(<<"P","2">>)
District1 == Str(<<"D","1">>)
Day18 == Str(<<"A","u","g"," ","1","8",","," ","2","0","2","5"," ","0","6",":","0","0",":","0","0">>)
Day20 == Str(<<"A","u","g"," ","2","0",","," ","2","0","2","5"," ","0","6",":","0","0",":","0","0">>)
Soon == Str(<<"s","o","o","n">>)
Cleared == Str(<<"c","l","e","a","r","e","d">>)
\* a status as some exports write it, in capitals
ActiveCaps == Str(<<"A","C","T","I","V","E">>)

\* the tables with the given columns and at most MaxRows of the given rows
TablesOf(columns, rows) ==
  { SelectColumns([cols |-> columns, rows |-> chosen], columns) :
      chosen \in Arrangements(rows, MaxRows) }

\* fault tables as loaded: a site, a start time, an end time once the fault
\* is cleared, and a status per fault
FaultRows ==
  { [site_name |-> Site1, start_time |-> Day18, end_time |-> NaN, alarm_status |-> Active],
    [site_name |-> Site2, start_time |-> Day18, end_time |-> NaN, alarm_status |-> ActiveCaps],
    [site_name |-> Site2, start_time |-> Day20, end_time |-> NaN, alarm_status |-> Active],
    [site_name |-> Site1, start_time |-> Soon, end_time |-> NaN, alarm_status |-> Active],
    [site_name |-> Site1, start_time |-> Day18, end_time |-> Day20, alarm_status |-> Cleared] }

FaultTables ==
  TablesOf(<<"site_name", "start_time", "end_time", "alarm_status">>, FaultRows)
    \cup TablesOf(<<"start_time", "alarm_status">>, FaultRows)
    \cup TablesOf(<<"site_name", "alarm_status">>, FaultRows)

ProjectRow(site, region, provincia) ==
  ("SITE_NAME" :> site) @@ ("Región" :> region) @@ ("Provincia" :> provincia)

\* projects tables: all location columns, no site column, one location
\* column alone, coordinates with and without the site column
ProjectsFull ==
  [cols |-> <<"SITE_NAME", "Región", "Provincia">>,
   rows |-> << ProjectRow(Site1, Region1, Province1),
               ProjectRow(Site1, Region1, Province2),
               ProjectRow(Site2, Region2, Province2) >>]

ProjectsNoSite == SelectColumns(ProjectsFull, <<"Región", "Provincia">>)
ProjectsRegionOnly == SelectColumns(ProjectsFull, <<"Región">>)

ProjectsMap ==
  [cols |-> <<"SITE_NAME", "lat", "lon">>,
   rows |-> << [SITE_NAME |-> Site1, lat |-> Str(<<"1">>), lon |-> Str(<<"2">>)],
               [SITE_NAME |-> Site2, lat |-> Str(<<"x">>), lon |-> Str(<<"2">>)] >>]

ProjectsCoordinates == SelectColumns(ProjectsMap, <<"lat", "lon">>)

ProjectsTables ==
  { NoDf, ProjectsFull, ProjectsNoSite, ProjectsRegionOnly, ProjectsMap, ProjectsCoordinates }

AveriasCalls ==
  { [fn |-> "create_averias_dashboard", df_averias |-> a, df_proyectos |-> p] :
      a \in FaultTables \cup {NoDf}, p \in ProjectsTables }

\* tables of the three modules with numeric metrics; one row has no site
KpiRows(metric) ==
  { [c \in {"site", "start_time", metric} |->
       CASE c = "site" -> s [] c = "start_time" -> t [] OTHER -> Str(<<"1",",","5">>)] :
      <<s, t>> \in { <<Site1, Day18>>, <<Site2, Day18>>, <<Site2, Day20>>, <<Site1, Soon>>,
                     <<NaN, Day18>> } }

KpiTables(metric) ==
  TablesOf(<<"site", "start_time", metric>>, KpiRows(metric))
    \cup TablesOf(<<"start_time", metric>>, KpiRows(metric))
    \cup TablesOf(<<"site", metric>>, KpiRows(metric))
    \cup TablesOf(<<"site", "start_time">>, KpiRows(metric))

KpiCalls(fn, metric) ==
  { [fn |-> fn, df |-> t] : t \in KpiTables(metric) \cup {NoDf} }

\* filter_averias_by_geography on its own: fault tables with or without a
\* site column, projects tables with every choice of mapping columns
SiteRows == { [site_name |-> s, alarm_status |-> Active] : s \in {Site1, Site2} }

MappingRows ==
  { ProjectRow(Site1, Region1, Province1),
    ProjectRow(Site1, Region1, Province2),
    ProjectRow(Site1, Region2, Province2),
    ProjectRow(Site2, Region2, Province2) }

MappingTables ==
  TablesOf(<<"SITE_NAME", "Región", "Provincia">>, MappingRows)
    \cup TablesOf(<<"Región", "Provincia">>, MappingRows)
    \cup TablesOf(<<"SITE_NAME", "Provincia">>, MappingRows)
    \cup TablesOf(<<"Región">>, MappingRows)
    \cup {NoDf}

GeographyCalls ==
  { [fn |-> "filter_averias_by_geography", df_averias |-> a, df_proyectos |-> p,
     region_sel |-> r, provincia_sel |-> v, distrito_sel |-> d, localidad_sel |-> {}] :
      a \in TablesOf(<<"site_name", "alarm_status">>, SiteRows)
              \cup TablesOf(<<"alarm_status">>, SiteRows),
      p \in MappingTables,
      r \in {{}, {Region1}, {Region1, Region2}},
      v \in {{}, {Province2}},
      d \in {{}, {District1}} }

RenderCalls ==
  AveriasCalls \cup GeographyCalls
    \cup KpiCalls("create_performance_dashboard", "latency")
    \cup KpiCalls("create_quality_dashboard", "lte_cdr")
    \cup KpiCalls("create_availability_dashboard", "cell_serv_time")

\* the dates a date input can return
PickableDates == { Date(2025, 8, d) : d \in 18..20 }
DefaultDate == Date(2025, 8, 18)

\* averias.py 172-232: the faults after the geographic filters
FiltradoOf(df_averias, df_proyectos, g) ==
  GeoFiltered(create_averias_dashboard(df_averias, df_proyectos).processed, df_proyectos, g)

SuccessOf(df_averias) ==
  parse_datetime_column(FormatAverias(LowerColumns(df_averias)), "start_time", TRUE).success

\* averias.py 622-636: the two date inputs return dates between the first
\* and the last date of the filtered faults
DateInputs(geo, success) ==
  IF geo.raised THEN { <<DefaultDate, DefaultDate>> }
  ELSE IF ~DateFilterOffered(WithoutRepeatedAlarms(geo.df), success)
            \/ RowDates(WithoutRepeatedAlarms(geo.df)) = {}
  THEN { <<DefaultDate, DefaultDate>> }
  ELSE { <<a, b>> : a \in { d \in PickableDates :
                              /\ DateOrdinal(d) >= min_date(WithoutRepeatedAlarms(geo.df))
                              /\ DateOrdinal(d) <= max_date(WithoutRepeatedAlarms(geo.df)) },
                    b \in { d \in PickableDates :
                              /\ DateOrdinal(d) >= min_date(WithoutRepeatedAlarms(geo.df))
                              /\ DateOrdinal(d) <= max_date(WithoutRepeatedAlarms(geo.df)) } }

\* averias.py 676-682: the multiselect returns some of the sites on offer
SiteInputs(geo, success, dates) ==
  IF geo.raised THEN { {} }
  ELSE SUBSET sites_disponibles(
         DateFiltered(WithoutRepeatedAlarms(geo.df), success,
                      [fecha_inicio |-> dates[1], fecha_fin |-> dates[2]]))

\* averias.py 689-695: a button can be clicked when the multiselect of sites
\* is drawn
ButtonInputs(site_inputs) ==
  IF site_inputs = { {} } THEN {NoButton} ELSE SiteButtons \cup {NoButton}

\* averias.py 732: the checkbox is at its default in a run that a button ends
ColumnInputs(button) == IF button = NoButton THEN BOOLEAN ELSE {FALSE}

AveriasWidgets(g, dates, sites, button, show_all_columns) ==
  [region |-> g.region, provincia |-> g.provincia, distrito |-> g.distrito,
   localidad |-> g.localidad, fecha_inicio |-> dates[1], fecha_fin |-> dates[2],
   sites |-> sites, button |-> button, show_all_columns |-> show_all_columns]

ViewOf(w, view) == [w |-> w, view |-> view]

\* the selections the multiselect of sites can return in a render of the call
AveriasSiteInputs(args, g, dates) ==
  IF args.df_averias = NoDf THEN { {} }
  ELSE SiteInputs(FiltradoOf(args.df_averias, args.df_proyectos, g),
                  SuccessOf(args.df_averias), dates)

ApplyAveriasView ==
  /\ fn_args.fn = "create_averias_dashboard"
  /\ fn_result = Pending
  /\ \E g \in (IF fn_args.df_averias # NoDf /\ GeoFiltersShown(fn_args.df_proyectos)
               THEN GeoSelections(fn_args.df_proyectos) ELSE {NoGeoSelection}) :
       \E dates \in (IF fn_args.df_averias = NoDf THEN { <<DefaultDate, DefaultDate>> }
                     ELSE DateInputs(FiltradoOf(fn_args.df_averias, fn_args.df_proyectos, g),
                                     SuccessOf(fn_args.df_averias))) :
         \E sites \in AveriasSiteInputs(fn_args, g, dates) :
           \E button \in ButtonInputs(AveriasSiteInputs(fn_args, g, dates)) :
             \E show_all_columns \in ColumnInputs(button) :
               fn_result' =
                 ViewOf(AveriasWidgets(g, dates, sites, button, show_all_columns),
                        averias_view(fn_args.df_averias, fn_args.df_proyectos,
                                     AveriasWidgets(g, dates, sites, button,
                                                    show_all_columns)))
  /\ UNCHANGED << datasets, uploaded_files, drill, widget, ids_this_run, clicked, pc,
                  fileIdx, trigger, outcome, siteTable, messages, handles, fn_args >>

\* desempeño.py 27-32: whether the start times of a table were parsed
KpiSuccess(df, numeric_columns) ==
  parse_datetime_column(clean_numeric_data(df, numeric_columns).result,
                        "start_time", TRUE).success

\* what the widgets of a module with metrics can return for a cleaned table
KpiWidgets(df_clean, success, numeric_columns, with_metrics, with_dates) ==
  { [sites |-> s, metrics |-> m, range |-> r, show_all_columns |-> c] :
      c \in BOOLEAN,
      s \in SUBSET all_sites(df_clean),
      m \in (IF with_metrics THEN SUBSET Range(available_metrics(df_clean, numeric_columns))
             ELSE { {} }),
      r \in (IF with_dates /\ success
             THEN TimeRanges(min_date(df_clean), max_date(df_clean)) ELSE { NoRange }) }

NoWidgets == [sites |-> {}, metrics |-> {}, range |-> NoRange, show_all_columns |-> FALSE]

ApplyPerformanceView ==
  /\ fn_args.fn = "create_performance_dashboard"
  /\ fn_result = Pending
  /\ \E w \in (IF fn_args.df = NoDf THEN {NoWidgets}
               ELSE KpiWidgets(create_performance_dashboard(fn_args.df).processed,
                               KpiSuccess(fn_args.df, performance_numeric_columns),
                               performance_numeric_columns,
                               TRUE, TRUE)) :
       fn_result' = ViewOf(w, performance_view(fn_args.df, w))
  /\ UNCHANGED << datasets, uploaded_files, drill, widget, ids_this_run, clicked, pc,
                  fileIdx, trigger, outcome, siteTable, messages, handles, fn_args >>

ApplyQualityView ==
  /\ fn_args.fn = "create_quality_dashboard"
  /\ fn_result = Pending
  /\ \E w \in (IF fn_args.df = NoDf THEN {NoWidgets}
               ELSE KpiWidgets(create_quality_dashboard(fn_args.df).processed,
                               KpiSuccess(fn_args.df, quality_numeric_columns),
                               quality_numeric_columns,
                               TRUE, TRUE)) :
       fn_result' = ViewOf(w, quality_view(fn_args.df, w))
  /\ UNCHANGED << datasets, uploaded_files, drill, widget, ids_this_run, clicked, pc,
                  fileIdx, trigger, outcome, siteTable, messages, handles, fn_args >>

ApplyAvailabilityView ==
  /\ fn_args.fn = "create_availability_dashboard"
  /\ fn_result = Pending
  /\ \E w \in (IF fn_args.df = NoDf THEN {NoWidgets}
               ELSE KpiWidgets(create_availability_dashboard(fn_args.df).processed,
                               KpiSuccess(fn_args.df, availability_numeric_columns),
                               availability_numeric_columns,
                               FALSE, FALSE)) :
       fn_result' = ViewOf(w, availability_view(fn_args.df, w))
  /\ UNCHANGED << datasets, uploaded_files, drill, widget, ids_this_run, clicked, pc,
                  fileIdx, trigger, outcome, siteTable, messages, handles, fn_args >>

ApplyGeography ==
  /\ fn_args.fn = "filter_averias_by_geography"
  /\ fn_result = Pending
  /\ fn_result' = filter_averias_by_geography(fn_args.df_averias, fn_args.df_proyectos,
                                              fn_args.region_sel, fn_args.provincia_sel,
                                              fn_args.distrito_sel, fn_args.localidad_sel)
  /\ UNCHANGED << datasets, uploaded_files, drill, widget, ids_this_run, clicked, pc,
                  fileIdx, trigger, outcome, siteTable, messages, handles, fn_args >>

InitRender ==
  /\ SessionInit
  /\ fn_args \in RenderCalls
  /\ fn_result = Pending

NextRender ==
  \/ ApplyAveriasView
  \/ ApplyPerformanceView
  \/ ApplyQualityView
  \/ ApplyAvailabilityView
  \/ ApplyGeography

SpecRender == InitRender /\ [][NextRender]_vars

(***************************************************************************)
(* Properties                                                              *)
(***************************************************************************)
PcOfLevel(level) ==
  CASE level = 1 -> "prov_dept" [] level = 2 -> "prov_prov" [] level = 3 -> "prov_dist"

Stored(state, level) == state[LevelField(level)]

\* the step renders the selectbox of `level` and its value is a selection
\* that differs from the stored one
RecordsNewSelection(level) ==
  /\ pc = PcOfLevel(level)
  /\ KeyOfLevel(level) \in ids_this_run'
  /\ widget'[KeyOfLevel(level)].value # Placeholder
  /\ widget'[KeyOfLevel(level)].value # Stored(drill, level)

\* C1: recording a selection at level 1, 2 or 3 that differs from the stored
\* one stores it and leaves every lower level unselected.
C1_RecordResetsLowerLevels ==
  [][\A level \in 1..3 :
       RecordsNewSelection(level) =>
         /\ Stored(drill', level) = widget'[KeyOfLevel(level)].value
         /\ \A lower \in (level + 1)..4 : Stored(drill', lower) = None]_vars

\* the department the user just chose was recorded while the province and
\* district selectboxes still hold the selections made under the previous one
C1_Witness ==
  /\ pc = "prov_prov"
  /\ trigger.kind = "select" /\ trigger.key = KeyOfLevel(1)
  /\ trigger.value # Placeholder
  /\ drill.selected_departamento = trigger.value
  /\ widget[KeyOfLevel(2)].registered /\ widget[KeyOfLevel(2)].value # Placeholder
  /\ widget[KeyOfLevel(3)].registered /\ widget[KeyOfLevel(3)].value # Placeholder
  /\ drill.selected_provincia = None /\ drill.selected_distrito = None

AllUnselected(state) ==
  /\ state.created
  /\ \A level \in 1..4 : Stored(state, level) = None

\* C2: when the rerun that the restart button triggers has rendered the
\* provisioning dashboard, all four levels are unselected.
C2_RestartReturnsToLevel0 ==
  (pc = "calidad" /\ trigger.kind = "restart") => AllUnselected(drill)

LevelOfKey(k) ==
  CASE k = "provision_departamento" -> 1
    [] k = "provision_provincia" -> 2
    [] k = "provision_distrito" -> 3

\* C3: after the user chose the placeholder in the selectbox of level i and
\* the provisioning dashboard rendered again, the stored selections of level i and of every level below are unselected.
C3_PlaceholderResetsFromLevel ==
  (pc = "calidad" /\ trigger.kind = "select" /\ trigger.value = Placeholder) =>
     \A level \in LevelOfKey(trigger.key)..4 : Stored(drill, level) = None

\* rows of the formatted provisioning dataset that match the stored
\* selections above `level`
RowsUnderAncestors(df, state, level) ==
  { row \in Range(df.rows) :
      \A up \in 1..(level - 1) :
        HasColumn(df, geo_columns[up]) /\ row[geo_columns[up]] = Stored(state, up) }

\* C4: after a run that finished without error every stored selection occurs in the loaded provisioning
\* dataset among the rows that match the stored ancestors.
C4_SelectionsOccurInDataset ==
  (pc = "idle" /\ outcome = "ok" /\ drill.created /\ datasets["Provision"] # NoDf) =>
     LET df == FormatProvision(datasets["Provision"])
     IN  \A level \in 1..3 :
           Stored(drill, level) # None =>
             /\ HasColumn(df, geo_columns[level])
             /\ \E row \in RowsUnderAncestors(df, drill, level) :
                  row[geo_columns[level]] = Stored(drill, level)

\* C5: the drill state is created by the provisioning render and afterwards
\* changed only by the step that records the value a selectbox returns, which
\* is a selection of the user, or by the restart; the upload loop, clear-all
\* and the steps of the other modules leave it unchanged.
C5_DrillStateFrame ==
  [][drill' # drill =>
       \/ pc = "provision" /\ drill = NoDrill /\ drill' = DrillInit
       \/ \E level \in 1..3 :
            /\ pc = PcOfLevel(level)
            /\ KeyOfLevel(level) \in ids_this_run'
            /\ widget'[KeyOfLevel(level)].value # Placeholder
            /\ Stored(drill', level) = widget'[KeyOfLevel(level)].value
            /\ \A upper \in 1..(level - 1) : Stored(drill', upper) = Stored(drill, upper)
       \/ pc = "prov_restart" /\ clicked = "restart" /\ AllUnselected(drill')]_vars

\* a run started by an upload or by clear-all rendered the provisioning
\* dashboard over a drill state that holds selections
C5_Witness ==
  /\ pc = "calidad"
  /\ trigger.kind \in {"upload", "clear"}
  /\ drill.created
  /\ drill.selected_distrito # None

\* C6: the step of level 4 shows the table iff a district is stored, and the
\* rows shown are the rows whose department, province and district equal the
\* stored selections.
C6_SiteTableIffDistrict ==
  [][pc = "prov_table" =>
       LET df == FormatProvision(datasets["Provision"])
       IN  /\ siteTable'.shown <=> drill.selected_distrito # None
           /\ siteTable'.shown =>
                siteTable'.rows =
                  SeqFilter(df.rows,
                            { row \in Range(df.rows) :
                                /\ row["Departamento"] = drill.selected_departamento
                                /\ row["Provincia"] = drill.selected_provincia
                                /\ row["Distrito"] = drill.selected_distrito })]_vars

\* the table is shown with fewer rows than the district name alone matches
C6_Witness ==
  /\ pc = "prov_restart"
  /\ siteTable.shown
  /\ Len(siteTable.rows) >= 1
  /\ LET df == FormatProvision(datasets["Provision"])
     IN  Len(siteTable.rows) < Len(FilterEq(df, "Distrito", drill.selected_distrito).rows)

LevelOf(state) == Cardinality({ level \in 1..4 : Stored(state, level) # None })

\* every selectbox of the run holds a selection and the leaf table is shown
DrilledToLeaf ==
  /\ pc = "idle" /\ outcome = "ok"
  /\ siteTable.shown
  /\ \A k \in WidgetKeys : k \in ids_this_run /\ widget[k].value # Placeholder

\* C7: Level4 is reachable by user selections: a user who selected a value in
\* every selectbox the drill-down offers holds a selection at all four levels.
C7_Level4Reachable == DrilledToLeaf => LevelOf(drill) = 4

\* C8: the dataset mapping changes only at initialisation, in the upload loop
\* and in the clear-all action; the steps that render the dashboards leave it
\* unchanged, and the two normalisers leave the table they are handed as it
\* was.
C8_OnlyUploadAndClearWrite ==
  [][/\ datasets' # datasets =>
          \/ pc = "init" /\ DOMAIN datasets = {}
          \/ pc = "upload" /\ fileIdx <= Len(uploaded_files)
          \/ pc = "upload" /\ fileIdx > Len(uploaded_files) /\ clicked = "clear"
     /\ (pc = "desempeno" /\ datasets["Desempeño"] # NoDf) =>
          LET df == datasets["Desempeño"]
          IN  /\ clean_numeric_data(df, performance_numeric_columns).arg = df
              /\ parse_datetime_column(df, "start_time", TRUE).arg = df]_vars

\* the performance dashboard rendered a loaded dataset that normalisation changes
C8_Witness ==
  /\ pc = "configuration"
  /\ datasets["Desempeño"] # NoDf
  /\ create_performance_dashboard(datasets["Desempeño"]).processed # datasets["Desempeño"]

\* the files of the uploader that classify as category c and load without error
GoodFilesOf(c) ==
  { i \in 1..Len(uploaded_files) :
      /\ detect_dataset_type(Files[uploaded_files[i]].name) = c
      /\ load_csv_file(Files[uploaded_files[i]]).error = None }

\* C9: an iteration of the upload loop whose file loads and classifies as c
\* replaces the dataset of c by the file's table and leaves the others; after
\* the loop the dataset of c is the table of the last such file.
C9_UploadReplacesWholesale ==
  /\ [][(pc = "upload" /\ fileIdx <= Len(uploaded_files)) =>
          LET file == Files[uploaded_files[fileIdx]]
              c == detect_dataset_type(file.name)
              loaded == load_csv_file(file)
          IN  IF c # None /\ loaded.error = None
              THEN /\ datasets'[c] = loaded.df
                   /\ \A other \in Categories \ {c} : datasets'[other] = datasets[other]
              ELSE datasets' = datasets]_vars
  /\ [](pc = "idle" =>
          \A c \in Categories :
            GoodFilesOf(c) # {} =>
              datasets[c] =
                load_csv_file(Files[uploaded_files[
                  CHOOSE i \in GoodFilesOf(c) : \A j \in GoodFilesOf(c) : j <= i]]).df)

\* two provisioning files were processed and the second one is stored
C9_Witness ==
  /\ pc = "idle"
  /\ uploaded_files = <<"fA", "fB">>
  /\ datasets["Provision"] = TableB

\* C10: in the rerun that the clear-all button triggers, once the sidebar
\* has run, every dataset entry is absent.
C10_ClearAllEmptiesStore ==
  (pc = "calidad" /\ trigger.kind = "clear") => \A c \in DOMAIN datasets : datasets[c] = NoDf

(***************************************************************************)
(* Upload loop (SpecUpload)                                                *)
(***************************************************************************)
NoKeyword(name) ==
  \A i \in 1..Len(detection_rules) : \A k \in 1..Len(detection_rules[i].keywords) :
    ~Contains(Lower(name), detection_rules[i].keywords[k])

CurrentFile == Files[uploaded_files[fileIdx]]

InIteration == pc = "upload" /\ fileIdx <= Len(uploaded_files)

\* C11: the iteration of the upload loop on a file whose name contains none
\* of the keywords reports "Tipo no reconocido" as a warning, does not read
\* the file (its handle stays at the start) and changes no dataset entry.
C11_UnrecognisedIgnored ==
  [][(InIteration /\ NoKeyword(CurrentFile.name)) =>
       /\ datasets' = datasets
       /\ handles'[fileIdx] = "start"
       /\ messages' = Append(messages, [kind |-> "warning", name |-> CurrentFile.name,
                                        text |-> "Tipo no reconocido"])]_vars

\* the misnamed file was passed over and the file after it was stored
C11_Witness ==
  /\ uploaded_files = << "fN", "fK" >>
  /\ pc = "upload" /\ fileIdx = 3
  /\ messages[1].kind = "warning" /\ messages[2].kind = "success"
  /\ handles = << "start", "eof" >>
  /\ datasets["Desempeño"] # NoDf
  /\ \A c \in Categories \ {"Desempeño"} : datasets[c] = NoDf

\* C12: load_csv_file reads at most twice, first as UTF-8 and as Latin-1 only
\* when the UTF-8 read raised UnicodeDecodeError, and returns either a table
\* and no error or no table and an error message; an iteration whose file
\* ends in error leaves every dataset entry as it was and the loop goes on
\* to the next file, so that every uploaded file has been reported when the
\* loop is over.
C12_LoadReturnsTableOrError ==
  /\ [][(InIteration /\ ~NoKeyword(CurrentFile.name)) =>
          LET loaded == load_csv_file(CurrentFile)
          IN  /\ Len(loaded.attempts) \in {1, 2}
              /\ loaded.attempts[1] = "utf-8"
              /\ Len(loaded.attempts) = 2 =>
                    /\ loaded.attempts[2] = "latin-1"
                    /\ read_csv(CurrentFile, "start", "utf-8").exc = "UnicodeDecodeError"
              /\ \/ loaded.df # NoDf /\ loaded.error = None
                 \/ loaded.df = NoDf /\ loaded.error # None
              /\ loaded.error # None =>
                    /\ datasets' = datasets
                    /\ messages' = Append(messages, [kind |-> "error", name |-> CurrentFile.name,
                                                     text |-> loaded.error])
              /\ pc' = "upload" /\ fileIdx' = fileIdx + 1]_vars
  /\ [](pc \notin {"init", "upload"} => Len(messages) = Len(uploaded_files))

\* a Latin-1 file and an empty file end in error around a good file: the good
\* file is stored and the empty file of the same category leaves it stored
C12_Witness ==
  /\ uploaded_files = << "fL", "fK", "fE" >>
  /\ pc = "averias"
  /\ messages[1].kind = "error" /\ messages[1].text = "Error de codificación"
  /\ messages[2].kind = "success"
  /\ messages[3].kind = "error" /\ messages[3].text = "Error al cargar archivo"
  /\ datasets["Desempeño"] = load_csv_file(Files["fK"]).df
  /\ datasets["Provision"] = NoDf

(***************************************************************************)
(* Helper functions (SpecHelpers)                                          *)
(***************************************************************************)
Applied(fn) == fn_args.fn = fn /\ fn_result # Pending

CategoryOrder ==
  << "Averias", "Desempeño", "Configuration", "Provision", "Disponibilidad", "Calidad", "Proyectos" >>

KeywordsOf(c) ==
  UNION { Range(detection_rules[i].keywords) : i \in { j \in 1..Len(detection_rules) : detection_rules[j].type = c } }

\* C13: detect_dataset_type returns the first category of the fixed order
\* that has a keyword occurring in the lower-cased file name, returns None
\* exactly when no keyword of any category occurs in it, and returns the same
\* for the name written in capitals or in small letters.
C13_DetectFirstCategory ==
  Applied("detect_dataset_type") =>
    LET name == Lower(fn_args.filename)
        hits == { i \in 1..Len(CategoryOrder) :
                    \E kw \in KeywordsOf(CategoryOrder[i]) : Contains(name, kw) }
    IN  /\ fn_result.value = None <=> hits = {}
        /\ hits # {} =>
              \E i \in hits : /\ fn_result.value = CategoryOrder[i]
                               /\ \A j \in hits : i <= j
        /\ NoKeyword(fn_args.filename) <=> hits = {}
        /\ detect_dataset_type(Upper(fn_args.filename)) = fn_result.value
        /\ detect_dataset_type(name) = fn_result.value

\* "SITE_ALARM.CSV": the keyword of the last category comes first in the
\* name, the category is the first of the order
C13_Witness ==
  /\ Applied("detect_dataset_type")
  /\ fn_args.filename = Upper(<<"s","i","t","e","_","a","l","a","r","m",".","c","s","v">>)
  /\ fn_result.value = "Averias"

HasDigit(t) == \E i \in 1..Len(t) : t[i] \in Digits
Commas(t) == { i \in 1..Len(t) : t[i] = "," }
Periods(t) == { i \in 1..Len(t) : t[i] = "." }
WithoutCommas(t) == SeqFilter(t, Range(t) \ {","})
TheComma(t) == CHOOSE i \in Commas(t) : TRUE

\* the policy applied to the text of the cell as it is, the fractional group
\* being one to three digits
StatedPolicy(t) ==
  IF ~HasDigit(t) THEN NaN
  ELSE IF Commas(t) # {} /\ Periods(t) # {} THEN Str(WithoutCommas(t))
  ELSE IF Commas(t) # {}
       THEN IF /\ Cardinality(Commas(t)) = 1
               /\ Len(t) - TheComma(t) \in 1..3
               /\ \A i \in (TheComma(t) + 1)..Len(t) : t[i] \in Digits
            THEN Str([t EXCEPT ![TheComma(t)] = "."])
            ELSE Str(WithoutCommas(t))
  ELSE Str(t)

\* the policy applied to the stripped text without its double quotes, the
\* second group being one to three characters
PreparedText(t) == SeqFilter(Strip(t), Range(t) \ {"\""})

PreparedPolicy(t) ==
  LET u == PreparedText(t)
  IN  IF ~HasDigit(u) THEN NaN
      ELSE IF Commas(u) # {} /\ Periods(u) # {} THEN Str(WithoutCommas(u))
      ELSE IF Commas(u) # {}
           THEN IF Cardinality(Commas(u)) = 1 /\ Len(u) - TheComma(u) \in 1..3
                THEN Str([u EXCEPT ![TheComma(u)] = "."])
                ELSE Str(WithoutCommas(u))
      ELSE Str(u)

\* C14 (as amended): for every text, the cleaned text is what the ordered
\* policy gives for the text stripped of surrounding blanks and then of its
\* double quotes: no digit, missing; comma and period, commas removed; comma
\* only with two groups and a second group of one to three characters, the
\* comma becomes the decimal point; comma only otherwise, commas removed; no
\* comma, unchanged.  The cell becomes the number that text spells, or
\* missing when it spells none.
C14_PolicyOnPreparedText ==
  (Applied("clean_european_number") /\ fn_args.value # NaN) =>
    /\ fn_result.value = PreparedPolicy(fn_args.value.text)
    /\ fn_result.numeric = to_numeric(PreparedPolicy(fn_args.value.text))

\* the text "1,5 with its double quote becomes 1.5
C14_Witness ==
  /\ Applied("clean_european_number")
  /\ fn_args.value = Str(<<"\"", "1", ",", "5">>)
  /\ fn_result.value = Str(<<"1", ".", "5">>)
  /\ fn_result.numeric = Num(FALSE, <<"1">>, <<"5">>)

\* C14 (as stated): for every text, the cell becomes what the ordered policy
\* gives for the text of the cell, a text without comma being unchanged.
C14_PolicyAsStated ==
  (Applied("clean_european_number") /\ fn_args.value # NaN) =>
    fn_result.numeric = to_numeric(StatedPolicy(fn_args.value.text))

\* C15: the cell "23,418.082" becomes 23418.082, "123,45" becomes 123.45,
\* "1,234" becomes 1234, and "" and "nan" become missing.
C15_DocumentedExamples ==
  Applied("clean_european_number") =>
    /\ fn_args.value = Str(<<"2","3",",","4","1","8",".","0","8","2">>) =>
          fn_result.numeric = Num(FALSE, <<"2","3","4","1","8">>, <<"0","8","2">>)
    /\ fn_args.value = Str(<<"1","2","3",",","4","5">>) =>
          fn_result.numeric = Num(FALSE, <<"1","2","3">>, <<"4","5">>)
    /\ fn_args.value = Str(<<"1",",","2","3","4">>) =>
          fn_result.numeric = Num(FALSE, <<"1","2","3","4">>, << >>)
    /\ fn_args.value \in { Str(<< >>), Str(<<"n","a","n">>) } =>
          fn_result.numeric = NaN

AppliedTimes(fn, n) == Applied(fn) /\ fn_result.applied = n

DerivedFields == <<"hour", "date", "day_of_week", "month", "year">>

Rows(df) == 1..Len(df.rows)

\* no value of the column was parsed
NothingParsed(out, col, kinds) ==
  HasColumn(out, col) /\ \A r \in Rows(out) : out.rows[r][col].kind \notin kinds

\* a derived cell is missing for a row without timestamp and is the field of
\* the timestamp otherwise
DerivedCellRight(ts, field, cell) ==
  IF ts.kind = "nat" THEN cell = NaN
  ELSE CASE field = "hour" -> cell = [kind |-> "int", value |-> ts.hour]
         [] field = "month" -> cell = [kind |-> "int", value |-> ts.month]
         [] field = "year" -> cell = [kind |-> "int", value |-> ts.year]
         [] field = "date" -> cell = [kind |-> "date", year |-> ts.year,
                                      month |-> ts.month, day |-> ts.day]
         [] field = "day_of_week" ->
              cell.kind = "name" /\ (<< ts.year, ts.month, ts.day >> = << 2025, 8, 18 >>
                                       => cell.value = "Monday")

NumericDegrades ==
  AppliedTimes("clean_numeric_data", 1) =>
    LET df == fn_args.df
        out == fn_result.result
    IN  /\ out.cols = df.cols /\ Len(out.rows) = Len(df.rows)
        /\ \A r \in Rows(df) : \A c \in Range(df.cols) :
              IF c \in Range(fn_args.columns)
              THEN /\ out.rows[r][c].kind \in {"num", "nan"}
                   /\ (df.rows[r][c] = NaN \/ ~HasDigit(df.rows[r][c].text))
                        => out.rows[r][c] = NaN
              ELSE out.rows[r][c] = df.rows[r][c]

DateDegrades ==
  AppliedTimes("parse_datetime_column", 1) =>
    LET df == fn_args.df
        out == fn_result.result
        col == fn_args.column_name
    IN  /\ NothingParsed(out, col, {"ts"}) =>
              /\ ~fn_result.success
              /\ \A r \in Rows(df) : out.rows[r][col] = df.rows[r][col]
              /\ \A f \in Range(DerivedFields) : ~HasColumn(out, f)
        /\ \A f \in Range(DerivedFields) : HasColumn(out, f) =>
              \A r \in Rows(out) : DerivedCellRight(out.rows[r][col], f, out.rows[r][f])
        /\ HasColumn(out, "duration_minutes") =>
              \A r \in Rows(out) :
                (out.rows[r]["start_time"] = NaT \/ out.rows[r]["end_time"] = NaT)
                  => out.rows[r]["duration_minutes"] = NaN

\* C16 (as amended): neither normaliser fails the table.  The date
\* normaliser returns a column of which no value parses with its raw text
\* and adds no derived field; the numeric normaliser returns every listed
\* column as numbers, a value that spells no number being missing, and the
\* other columns as they were; a derived field of a row without timestamp is
\* missing, never a stand-in value.
C16_DegradesPerColumn == NumericDegrades /\ DateDegrades

\* a numeric column of "abc" and "1a" comes back all missing
C16_Witness ==
  /\ AppliedTimes("clean_numeric_data", 1)
  /\ fn_args.df = NumericTable(Str(<<"a","b","c">>), Str(<<"1","a">>))
  /\ fn_result.result = NumericTable(NaN, NaN)

\* C16 (as stated): for the numeric and for the date normaliser, a column of
\* which no value parses is returned with its raw text values.
C16_RawTextKept ==
  /\ AppliedTimes("clean_numeric_data", 1) =>
        \A c \in Range(fn_args.columns) :
          NothingParsed(fn_result.result, c, {"num"}) =>
            \A r \in Rows(fn_args.df) : fn_result.result.rows[r][c] = fn_args.df.rows[r][c]
  /\ AppliedTimes("parse_datetime_column", 1) =>
        (NothingParsed(fn_result.result, fn_args.column_name, {"ts"}) =>
           \A r \in Rows(fn_args.df) :
             fn_result.result.rows[r][fn_args.column_name] = fn_args.df.rows[r][fn_args.column_name])

\* C17: clean_numeric_data applied to its own result returns that result value
\* for value; parse_datetime_column applied to the result of a call that
\* parsed the column returns that result value for value, the derived fields
\* and the duration included.
C17_NormalisersIdempotent ==
  /\ AppliedTimes("clean_numeric_data", 2) => fn_result.result = fn_result.arg
  /\ AppliedTimes("parse_datetime_column", 2) =>
        (fn_result.first_success => fn_result.result = fn_result.arg)

\* start_time parsed with derived fields, then parsed again: the second call
\* parses nothing and returns the timestamps and the derived fields it got
C17_Witness ==
  /\ AppliedTimes("parse_datetime_column", 2)
  /\ fn_args.column_name = "start_time" /\ fn_args.create_derived_fields
  /\ fn_result.first_success /\ ~fn_result.success
  /\ \E r \in Rows(fn_result.result) :
        /\ fn_args.df.rows[r]["start_time"].kind = "str"
        /\ fn_result.result.rows[r]["start_time"] = Timestamp(2025, 8, 18, 6, 0, 0)
        /\ fn_result.result.rows[r]["hour"] = [kind |-> "int", value |-> 6]
  /\ \E r \in Rows(fn_result.result) : fn_result.result.rows[r]["start_time"] = NaT

\* what the date cells of the tables spell under '%b %d, %Y %H:%M:%S'
ExpectedTimestamp(cell) ==
  CASE cell = Str(<<"A","u","g"," ","1","8",","," ","2","0","2","5"," ","@"," ","0","6",":","0","0",":","0","0",".","0","0","0">>)
         -> Timestamp(2025, 8, 18, 6, 0, 0)
    [] cell = Str(<<"A","u","g"," ","1","8",","," ","2","0","2","5"," ","0","6",":","3","0",":","0","0">>)
         -> Timestamp(2025, 8, 18, 6, 30, 0)
    [] OTHER -> NaT

\* C18: parse_datetime_column reports success exactly when the column exists
\* and the cleaned text of at least one row parses under the fixed format; on
\* success the column holds the parsed timestamp of every row, missing for a
\* row that does not parse, and hour, date, day_of_week, month and year are
\* added exactly when derived fields were requested.
C18_SuccessIffSomeRowParses ==
  AppliedTimes("parse_datetime_column", 1) =>
    LET df == fn_args.df
        out == fn_result.result
        col == fn_args.column_name
    IN  /\ fn_result.success <=>
              (HasColumn(df, col) /\ \E r \in Rows(df) : ExpectedTimestamp(df.rows[r][col]) # NaT)
        /\ fn_result.success =>
              /\ \A r \in Rows(df) : out.rows[r][col] = ExpectedTimestamp(df.rows[r][col])
              /\ \A f \in Range(DerivedFields) :
                    HasColumn(out, f) <=> fn_args.create_derived_fields
              /\ \A f \in Range(DerivedFields) : HasColumn(out, f) =>
                    \A r \in Rows(out) : DerivedCellRight(out.rows[r][col], f, out.rows[r][f])
        /\ ~fn_result.success => \A f \in Range(DerivedFields) : ~HasColumn(out, f)

\* end_time parsed without derived fields: one row parses, the other is missing
C18_Witness ==
  /\ AppliedTimes("parse_datetime_column", 1)
  /\ fn_args.column_name = "end_time" /\ ~fn_args.create_derived_fields
  /\ fn_result.success
  /\ fn_args.df.rows[1]["end_time"] = Str(<<"s","o","o","n">>)
  /\ fn_result.result.rows[1]["end_time"] = NaT
  /\ fn_result.result.rows[2]["end_time"] = Timestamp(2025, 8, 18, 6, 0, 0)
  /\ ~HasColumn(fn_result.result, "hour")

\* no row of the column of the table handed to the call parses
NoRowParses(df, col) ==
  \A r \in Rows(df) :
    df.rows[r][col].kind \in {"ts", "nat"} \/ ExpectedTimestamp(df.rows[r][col]) = NaT

\* C19: when the column is absent or no row of it parses, parse_datetime_column
\* returns False and a table equal to the one it was handed: the same
\* columns in the same order (no temporary column, no added column) and the
\* same values, the column with its original text.
C19_FailureReturnsInput ==
  /\ AppliedTimes("parse_datetime_column", 1) =>
        ((~HasColumn(fn_args.df, fn_args.column_name)
            \/ NoRowParses(fn_args.df, fn_args.column_name))
           => ~fn_result.success /\ fn_result.result = fn_args.df /\ fn_result.arg = fn_args.df)
  /\ AppliedTimes("parse_datetime_column", 2) =>
        ((~HasColumn(fn_result.arg, fn_args.column_name)
            \/ NoRowParses(fn_result.arg, fn_args.column_name))
           => ~fn_result.success /\ fn_result.result = fn_result.arg)

\* a start_time column of "soon" and "Feb 30, 2025 06:00:00" comes back as text
C19_Witness ==
  /\ AppliedTimes("parse_datetime_column", 1)
  /\ fn_args.column_name = "start_time" /\ fn_args.create_derived_fields
  /\ fn_args.df.cols = <<"site", "start_time", "end_time">>
  /\ fn_args.df.rows[1]["start_time"] = Str(<<"s","o","o","n">>)
  /\ fn_args.df.rows[2]["start_time"] =
       Str(<<"F","e","b"," ","3","0",","," ","2","0","2","5"," ","0","6",":","0","0",":","0","0">>)
  /\ ~fn_result.success
  /\ fn_result.result = fn_args.df

SecondsOfDay(ts) == 3600 * ts.hour + 60 * ts.minute + ts.second

\* the duration cell is the number of minutes between two times of one day
MinutesBetween(cell, start, end) ==
  /\ cell.kind = "ratio"
  /\ 60 * cell.num = cell.den * (SecondsOfDay(end) - SecondsOfDay(start))

\* C20: after start_time and then end_time were parsed, the table has a
\* duration_minutes column exactly when it has both columns and both calls
\* reported success; every row of it holds end_time minus start_time in
\* minutes (30 from 06:00:00 to 06:30:00), missing where a timestamp is missing.
C20_DurationInMinutes ==
  (Applied("parse_start_then_end") /\ fn_result.stage = "end") =>
    LET df == fn_args.df
        out == fn_result.result
    IN  /\ HasColumn(out, "duration_minutes") <=>
              /\ HasColumn(df, "start_time") /\ HasColumn(df, "end_time")
              /\ fn_result.start_success /\ fn_result.end_success
        /\ HasColumn(out, "duration_minutes") =>
              \A r \in Rows(out) :
                LET start == ExpectedTimestamp(df.rows[r]["start_time"])
                    end == ExpectedTimestamp(df.rows[r]["end_time"])
                IN  IF start = NaT \/ end = NaT
                    THEN out.rows[r]["duration_minutes"] = NaN
                    ELSE MinutesBetween(out.rows[r]["duration_minutes"], start, end)

\* 06:00:00 to 06:30:00 is 30 minutes; the row without end_time has none
C20_Witness ==
  /\ Applied("parse_start_then_end") /\ fn_result.stage = "end"
  /\ HasColumn(fn_result.result, "duration_minutes")
  /\ fn_result.result.rows[1]["start_time"] = Timestamp(2025, 8, 18, 6, 0, 0)
  /\ fn_result.result.rows[1]["end_time"] = Timestamp(2025, 8, 18, 6, 30, 0)
  /\ fn_result.result.rows[1]["duration_minutes"].num
       = 30 * fn_result.result.rows[1]["duration_minutes"].den
  /\ fn_result.result.rows[2]["end_time"] = NaT
  /\ fn_result.result.rows[2]["duration_minutes"] = NaN

\* a renderer, or the geography filter on its own, has been applied
ViewApplied(fn) == fn_args.fn = fn /\ fn_result # Pending

\* the lookups of a column by name that a render can fail on
ColumnLookups == {"geography", "map"}

\* C21: a missing expected column never causes a hard failure: whatever
\* columns the faults and the projects table have and whatever the filters
\* hold, the faults renderer completes and the geography filter returns a
\* table; neither raises on a column lookup.
C21_MissingColumnNeverRaises ==
  /\ ViewApplied("create_averias_dashboard") =>
       ~(fn_result.view.outcome = "exception" /\ fn_result.view.where \in ColumnLookups)
  /\ ViewApplied("filter_averias_by_geography") => ~fn_result.raised

\* the modules that filter
FilteringModules ==
  {"create_averias_dashboard", "create_performance_dashboard",
   "create_quality_dashboard", "create_availability_dashboard"}

\* the table handed to a renderer
TableOf(args) ==
  IF args.fn = "create_averias_dashboard" THEN args.df_averias ELSE args.df

\* a render of a loaded table with rows that ran to its end
Completed(fn) ==
  /\ ViewApplied(fn)
  /\ TableOf(fn_args) # NoDf
  /\ TableOf(fn_args).rows # << >>
  /\ fn_result.view.outcome = "ok"

\* C22: in every module that filters, when the applied filters leave no rows
\* the render shows a message and renders no chart and no data table.
C22_EmptyResultShowsOnlyMessage ==
  \A fn \in FilteringModules :
    (Completed(fn) /\ fn_result.view.filtered = << >>) =>
      /\ fn_result.view.messages # {}
      /\ fn_result.view.charts = {}
      /\ ~fn_result.view.table.shown

\* the faults that reach the table filters of a completed faults render, after
\* the date filter
DateFilteredSet ==
  DateFiltered(WithoutRepeatedAlarms(
                 FiltradoOf(fn_args.df_averias, fn_args.df_proyectos, fn_result.w).df),
               SuccessOf(fn_args.df_averias), fn_result.w)

\* the rows of a table whose value in a column is one of the given values
RowsWithin(df, col, values) == SelectSeq(df.rows, LAMBDA row : row[col] \in values)

\* C23: in the table filter of the faults module a non-empty site selection
\* yields exactly the rows of the date-filtered set whose site column value is
\* in the selected list, in their order, and an empty selection yields the
\* date-filtered set unchanged.
C23_SiteFilterKeepsSelectedSites ==
  Completed("create_averias_dashboard") =>
    /\ fn_result.w.sites # {} =>
         fn_result.view.filtered =
           RowsWithin(DateFilteredSet, find_site_column(DateFilteredSet), fn_result.w.sites)
    /\ fn_result.w.sites = {} => fn_result.view.filtered = DateFilteredSet.rows

\* two faults of different sites on the same day, the date range kept, site S2
\* selected: the table holds the fault of S2 alone
C23_Witness ==
  /\ Completed("create_averias_dashboard")
  /\ fn_result.w.sites = {Site2}
  /\ Len(DateFilteredSet.rows) = 2
  /\ Len(fn_result.view.filtered) = 1
  /\ fn_result.view.filtered[1]["site_name"] = Site2
  /\ \E i \in 1..2 : DateFilteredSet.rows[i]["site_name"] = Site1

\* the four level selections of a call of the geography filter
LevelSelections(args) ==
  << <<"Región", args.region_sel>>, <<"Provincia", args.provincia_sel>>,
     <<"Distrito", args.distrito_sel>>, <<"Localidad", args.localidad_sel>> >>

\* a projects row satisfies all the non-empty selections
SatisfiesAll(row, df_proyectos, args) ==
  \A i \in 1..4 :
    LevelSelections(args)[i][2] # {} =>
      /\ HasColumn(df_proyectos, LevelSelections(args)[i][1])
      /\ row[LevelSelections(args)[i][1]] \in LevelSelections(args)[i][2]

\* a projects row satisfies the non-empty selections of the columns it has
SatisfiesPresent(row, df_proyectos, args) ==
  \A i \in 1..4 :
    (LevelSelections(args)[i][2] # {} /\ HasColumn(df_proyectos, LevelSelections(args)[i][1])) =>
      row[LevelSelections(args)[i][1]] \in LevelSelections(args)[i][2]

\* the rows of the result are input rows, each taken at most once, in order
\* (compared on the columns of the input)
EachRowAtMostOnce(input, result) ==
  \E f \in [1..Len(result.rows) -> 1..Len(input.rows)] :
    /\ \A i, j \in 1..Len(result.rows) : i < j => f[i] < f[j]
    /\ \A i \in 1..Len(result.rows) :
         \A c \in Range(input.cols) : result.rows[i][c] = input.rows[f[i]][c]

\* the original statement of C24: for any fault table, projects table and
\* level selections, in the table the filter returns each input fault row
\* appears at most once and every row's site belongs to a projects row that
\* satisfies all the non-empty selections.
C24_NoDuplicatesAndSitesMatch ==
  (ViewApplied("filter_averias_by_geography") /\ ~fn_result.raised) =>
    /\ EachRowAtMostOnce(fn_args.df_averias, fn_result.df)
    /\ find_site_column(fn_args.df_averias) # None =>
         \A i \in 1..Len(fn_result.df.rows) :
           /\ fn_args.df_proyectos # NoDf
           /\ HasColumn(fn_args.df_proyectos, "SITE_NAME")
           /\ \E row \in Range(fn_args.df_proyectos.rows) :
                /\ row["SITE_NAME"] = fn_result.df.rows[i][find_site_column(fn_args.df_averias)]
                /\ SatisfiesAll(row, fn_args.df_proyectos, fn_args)

\* the calls in which the filter has what it needs to filter: a projects table
\* with SITE_NAME and another mapping column, a fault table with a site column
CanFilter(args) ==
  /\ args.df_proyectos # NoDf
  /\ HasColumn(args.df_proyectos, "SITE_NAME")
  /\ Len(existing_cols(args.df_proyectos)) >= 2
  /\ find_site_column(args.df_averias) # None

\* C24 (amended): when the projects table has SITE_NAME and at least one more
\* mapping column and the fault table has a site column, the filter returns
\* a table in which each input fault row appears at most once and every
\* row's site belongs to a projects row that satisfies the non-empty
\* selections of the location columns the projects table has.
C24_NoDuplicatesAndSitesMatchPresent ==
  (ViewApplied("filter_averias_by_geography") /\ CanFilter(fn_args)) =>
    /\ ~fn_result.raised
    /\ EachRowAtMostOnce(fn_args.df_averias, fn_result.df)
    /\ \A i \in 1..Len(fn_result.df.rows) :
         \E row \in Range(fn_args.df_proyectos.rows) :
           /\ row["SITE_NAME"] = fn_result.df.rows[i][find_site_column(fn_args.df_averias)]
           /\ SatisfiesPresent(row, fn_args.df_proyectos, fn_args)

\* site S1 is in two provinces of the selected region R1 and has one fault:
\* the fault comes back once, with the location of the first projects row
C24_Witness ==
  /\ ViewApplied("filter_averias_by_geography")
  /\ CanFilter(fn_args)
  /\ fn_args.region_sel = {Region1}
  /\ fn_args.provincia_sel = {}
  /\ fn_args.df_proyectos.rows = << ProjectRow(Site1, Region1, Province1),
                                    ProjectRow(Site1, Region1, Province2) >>
  /\ Len(fn_args.df_averias.rows) = 2
  /\ fn_args.df_averias.rows[1]["site_name"] = Site1
  /\ fn_args.df_averias.rows[2]["site_name"] = Site2
  /\ Len(fn_result.df.rows) = 1
  /\ fn_result.df.rows[1]["site_name"] = Site1
  /\ fn_result.df.rows[1]["Provincia"] = Province1

\* C25: once the session is initialised the dataset mapping has exactly the
\* seven category keys: every step ends with these keys, initialisation
\* leaves a mapping that exists as it is, and an iteration of the upload
\* loop writes under one of the seven keys or not at all.
C25_SevenFixedKeys ==
  [][/\ DOMAIN datasets' = Categories
     /\ (pc = "init" /\ DOMAIN datasets # {}) => datasets' = datasets
     /\ InIteration => detect_dataset_type(CurrentFile.name) \in Categories \cup {None}]_vars

\* a file was stored, the clear-all button emptied the entries, and the
\* rerun is about to initialise the session again: the seven keys are there
C25_Witness ==
  /\ pc = "init"
  /\ DOMAIN datasets = Categories
  /\ \A c \in Categories : datasets[c] = NoDf
  /\ \E i \in 1..Len(messages) : messages[i].kind = "success"

\* C26: the stored drill-down selections form a prefix of the level order: a
\* stored district implies a stored province, and a stored province implies
\* a stored department.
C26_SelectionsFormPrefix ==
  drill.created =>
    /\ Stored(drill, 3) # None => Stored(drill, 2) # None
    /\ Stored(drill, 2) # None => Stored(drill, 1) # None

\* a department, a province and a district are stored
C26_Witness ==
  /\ drill.created
  /\ Stored(drill, 1) # None /\ Stored(drill, 2) # None /\ Stored(drill, 3) # None
  /\ pc = "idle"

\* the download button of the provisioning module was just rendered
Exported ==
  /\ pc = "disponibilidad"
  /\ "restart_button" \in ids_this_run
  /\ outcome # "exception"

\* the rows of a table that match every stored selection
RowsMatchingSelections(df, state) ==
  SelectSeq(df.rows,
            LAMBDA row : \A level \in 1..3 :
                           Stored(state, level) # None =>
                             row[geo_columns[level]] = Stored(state, level))

\* the levels with a stored selection
StoredLevels(state) == { level \in 1..4 : Stored(state, level) # None }

\* C27: the provisioning export contains exactly the dataset rows that match
\* all stored selections, so whenever the leaf table is shown the exported
\* rows equal the displayed rows; the file name carries the deepest stored
\* selection (and none when nothing is selected).
C27_ExportIsFilteredView ==
  Exported =>
    /\ ExportRows(FormatProvision(datasets["Provision"]), drill)
         = RowsMatchingSelections(FormatProvision(datasets["Provision"]), drill)
    /\ siteTable.shown =>
         siteTable.rows = ExportRows(FormatProvision(datasets["Provision"]), drill)
    /\ download_name(drill) =
         IF StoredLevels(drill) = {} THEN <<"provisionamiento">>
         ELSE <<"provisionamiento",
                Stored(drill, CHOOSE level \in StoredLevels(drill) :
                                \A other \in StoredLevels(drill) : other <= level)>>

\* district D1 of province P1 of LIMA is selected in a dataset that has D1
\* under two more provinces: the export holds the one row of the leaf table
C27_Witness ==
  /\ Exported
  /\ siteTable.shown
  /\ drill.selected_departamento = "LIMA"
  /\ drill.selected_provincia = "P1"
  /\ drill.selected_distrito = "D1"
  /\ Len(ExportRows(FormatProvision(datasets["Provision"]), drill)) = 1
  /\ Len(FormatProvision(datasets["Provision"]).rows) = 4
  /\ download_name(drill) = <<"provisionamiento", "D1">>

\* a render of a module with metrics that ran to its end with no site selected
\* and showed its table
NoSiteSelected(fn) ==
  /\ Completed(fn)
  /\ fn_result.w.sites = {}
  /\ fn_result.view.table.shown

\* C28: an empty site selection means different things in the modules.  In
\* performance, quality and availability it applies no site filter: the
\* table holds the rows of every site (within the range of dates).  With no
\* site selected performance still renders its timeline chart, once a metric
\* is selected and the dates were parsed, while quality and availability
\* render no chart and ask the user to select a site.
C28_EmptySiteSelectionDiffers ==
  /\ NoSiteSelected("create_performance_dashboard") =>
       /\ fn_result.view.filtered =
            RangeFilter(create_performance_dashboard(fn_args.df).processed,
                        KpiSuccess(fn_args.df, performance_numeric_columns),
                        fn_result.w.range).rows
       /\ (fn_result.w.metrics # {} /\ KpiSuccess(fn_args.df, performance_numeric_columns)) =>
            "timeline" \in fn_result.view.charts
  /\ NoSiteSelected("create_quality_dashboard") =>
       /\ fn_result.view.filtered =
            RangeFilter(create_quality_dashboard(fn_args.df).processed,
                        KpiSuccess(fn_args.df, quality_numeric_columns),
                        fn_result.w.range).rows
       /\ fn_result.view.charts = {}
       /\ SelectSites \in fn_result.view.messages
  /\ NoSiteSelected("create_availability_dashboard") =>
       /\ fn_result.view.filtered = create_availability_dashboard(fn_args.df).processed.rows
       /\ fn_result.view.charts = {}
       /\ SelectSitesAvailability \in fn_result.view.messages

\* a performance table with a row of each of two sites, a metric selected and
\* no site: the table holds both rows and the timeline is drawn
C28_Witness ==
  /\ NoSiteSelected("create_performance_dashboard")
  /\ fn_result.w.metrics = {"latency"}
  /\ HasColumn(fn_args.df, "site")
  /\ Len(fn_result.view.filtered) = 2
  /\ fn_result.view.filtered[1]["site"] = Site1
  /\ fn_result.view.filtered[2]["site"] = Site2
  /\ "timeline" \in fn_result.view.charts

\* C29: when the UTF-8 attempt fails with a decode error the Latin-1 retry
\* reads the file from its beginning: an upload iteration on a well-formed
\* Latin-1 file that is not valid UTF-8 and has a recognised name stores the
\* file's table, header and all rows, and reports no error.
C29_Latin1RetryLoadsWholeFile ==
  [][(/\ InIteration
      /\ CurrentFile.encoding = "latin-1"
      /\ CurrentFile.table # NoDf
      /\ detect_dataset_type(CurrentFile.name) # None) =>
        /\ datasets'[detect_dataset_type(CurrentFile.name)]
             = clean_and_reorder_columns(CurrentFile.table)
        /\ messages'[Len(messages')].kind = "success"]_vars

\* C30: the status panel of the sidebar and the overview tab agree on which
\* datasets are loaded: once both were rendered, a dataset is shown as loaded
\* in the sidebar if and only if it is counted in the overview's metric of
\* loaded datasets and shown as loaded in the grid of modules.
C30_SidebarAndOverviewAgree ==
  pc = "averias" =>
    /\ \A c \in Categories :
         c \in SidebarLoaded(datasets) <=>
           (c \in OverviewCounted(datasets) /\ c \in GridLoaded(datasets))
    /\ datasets_loaded(datasets) = Cardinality(SidebarLoaded(datasets))
====
